---- MODULE Spec2Model ----
(***************************************************************************)
(* Model of the task tracker backend: TasksService over a TaskRepository   *)
(* and a cache-manager Cache.                                              *)
(*                                                                         *)
(* Strings are sequences of one-character strings, so that trim and        *)
(* toLowerCase are computed.  A JavaScript object is a function whose      *)
(* domain is the set of its own keys ('k' in obj  ==  k \in DOMAIN obj).   *)
(* Spec    : every request handler runs to completion (one action each).   *)
(* SpecConc: the handlers are cut at their awaits and interleave.          *)
(***************************************************************************)
EXTENDS Integers, Sequences, FiniteSets, TLC

\* ---------------------------------------------------------------- bounds
MaxTasks == 2
MaxCalls == 4
MaxConcCalls == 4
MaxInFlight == 2
MaxVersionArg == 1

\* ------------------------------------------------------- program constants
DefaultPriority == 3
HttpNotFound == 404
HttpConflict == 409
HttpInternalError == 500
HttpBadRequest == 400

VARIABLES
  store,          \* repository rows: id -> entity (Map, insertion order = id order)
  nextId,         \* the next identifier randomUUID() hands out
  clock,          \* the value new Date() returns
  cache,          \* cacheManager: key -> cached TaskCollectionResponseDto
  listCacheKeys,  \* TasksService.listCacheKeys
  calls,          \* number of service calls started
  outcome,        \* the call that completed last: arguments and result
  reqs,           \* requests in flight (SpecConc): slot -> continuation
  updCount,       \* history: id -> number of successful updateTask calls
  okVersions,     \* history: the <<id, dto.version>> of every successful update
  deleted,        \* history: ids removed by a successful deleteTask
  served,         \* history: normalized query -> response of the latest
                  \*   listTasks for it since the last successful mutation
                  \*   and since its cache entry last expired
  httpResponse,   \* the HTTP response sent last (SpecHttp)
  fnArgs,         \* the arguments of a pure function (SpecPure)
  fnResult,       \* what the function returned for them
  taskApi,        \* the frontend's taskApi module (SpecApi): its clock, its
                  \*   taskListCache, its requests in flight, and the history
                  \*   of its listTasks calls
  queryClient,    \* the query cache of useTaskMutations (SpecQuery): the
                  \*   cached ['tasks', ...] responses and the mutations
                  \*   in flight with the snapshots they took
  users,          \* q2 (SpecUsers): the heap of user objects, the cache of
                  \*   getUser, its fetches in flight and what it returned
  taskForm,       \* TaskForm (SpecForm): its mode, tags and tagInput
  toastProvider   \* ToastProvider (SpecToast): the toasts shown, the
                  \*   timeouts map and nextId

vars == <<store, nextId, clock, cache, listCacheKeys, calls, outcome, reqs,
          updCount, okVersions, deleted, served, httpResponse, fnArgs,
          fnResult, taskApi, queryClient, users, taskForm, toastProvider>>

serviceVars == <<store, nextId, clock, cache, listCacheKeys, calls, outcome, reqs,
                 updCount, okVersions, deleted, served>>

\* what a call of a TasksService handler does not touch
hookVars == <<queryClient, users, taskForm, toastProvider>>

outsideService == <<httpResponse, fnArgs, fnResult, taskApi, hookVars>>

Ids == 1..MaxTasks

\* ------------------------------------------------------------ JS helpers
Put(obj, k, v) == [x \in DOMAIN obj \cup {k} |-> IF x = k THEN v ELSE obj[x]]

Has(obj, k) == k \in DOMAIN obj

\* { ...a, ...b }
Spread(a, b) == [x \in DOMAIN a \cup DOMAIN b |-> IF x \in DOMAIN b THEN b[x] ELSE a[x]]

EmptyObject == [x \in {} |-> 0]

IsSpace(c) == c = " "

RECURSIVE TrimStart(_)
TrimStart(s) == IF s # <<>> /\ IsSpace(Head(s)) THEN TrimStart(Tail(s)) ELSE s

RECURSIVE TrimEnd(_)
TrimEnd(s) ==
  IF s # <<>> /\ IsSpace(s[Len(s)]) THEN TrimEnd(SubSeq(s, 1, Len(s) - 1)) ELSE s

\* String.prototype.trim
Trim(s) == TrimEnd(TrimStart(s))

LowerChar(c) == IF c = "A" THEN "a" ELSE IF c = "B" THEN "b" ELSE c

\* String.prototype.toLowerCase
ToLowerCase(s) == [i \in 1..Len(s) |-> LowerChar(s[i])]

\* String.prototype.includes
Includes(s, sub) ==
  \E i \in 0..(Len(s) - Len(sub)) : SubSeq(s, i + 1, i + Len(sub)) = sub

\* Array.prototype.slice(from, to) with 0-based bounds inside or past the array
Slice(s, from, to) ==
  LET hi == IF to < Len(s) THEN to ELSE Len(s)
  IN  IF from >= hi THEN <<>> ELSE SubSeq(s, from + 1, hi)

\* Array.from(new Set(s)): first occurrences, in order
RECURSIVE UniqueSeq(_)
UniqueSeq(s) ==
  IF s = <<>> THEN <<>>
  ELSE LET init == UniqueSeq(SubSeq(s, 1, Len(s) - 1))
           last == s[Len(s)]
       IN  IF \E i \in 1..Len(init) : init[i] = last THEN init
           ELSE Append(init, last)

\* ----------------------------------------------------------------- dates
\* An ISO-8601 text is <<"iso", t, form>>; a Date is <<t>>; null is <<>>.
NullDate == <<>>
JsonNull == <<"null">>
JsonUndefined == <<"undefined">>

\* new Date(text).getTime(); -1 stands for NaN
ParseDate(text) == IF text[1] = "iso" THEN text[2] ELSE -1

\* Date.prototype.toISOString
ToISOString(date) == <<"iso", date[1], "full">>

\* ------------------------------------------------- mappers/task-mapper.ts
TrimmedTags(tags) == [i \in 1..Len(tags) |-> Trim(tags[i])]

NonEmptyTag(tag) == Len(tag) > 0

\* mutation: the tags are not trimmed
normalizeTags_NoTrim(tags) == UniqueSeq(SelectSeq(tags, NonEmptyTag))

normalizeTags(tags) == UniqueSeq(SelectSeq(TrimmedTags(tags), NonEmptyTag))

\* A draft is a function from its properties to their values; a property
\* whose JSON value is null is listed under "nulls" instead (a null dueDate
\* is the value JsonNull).
IsNullProp(dto, p) == Has(dto, "nulls") /\ p \in dto.nulls

\* dto.title.trim() with a null title throws a TypeError
TitleIsNull(dto) == IsNullProp(dto, "title")

\* entity.status = dto.status and entity.priority = dto.priority take a null,
\* which the NOT NULL columns of the tasks table reject when the row is saved
NullColumn(dto) == IsNullProp(dto, "status") \/ IsNullProp(dto, "priority")

\* the branch of applyDtoToEntity that throws invalid-due-date
DueDateIsInvalid(dto) ==
  /\ Has(dto, "dueDate")
  /\ dto.dueDate \notin {JsonNull, JsonUndefined}
  /\ ParseDate(dto.dueDate) = -1

\* !entity.status, !entity.priority
FalsyString(obj, k) == ~Has(obj, k) \/ obj[k] = ""

FalsyNumber(obj, k) == ~Has(obj, k) \/ obj[k] = 0

ApplyTitle(entity, dto) ==
  IF Has(dto, "title") THEN Put(entity, "title", Trim(dto.title)) ELSE entity

\* mutation: a draft without a status resets the status to the default
ApplyStatus_AlwaysDefaults(entity, dto) ==
  IF Has(dto, "status") THEN Put(entity, "status", dto.status)
  ELSE Put(entity, "status", "todo")

ApplyStatus(entity, dto) ==
  IF Has(dto, "status") THEN Put(entity, "status", dto.status)
  ELSE IF FalsyString(entity, "status") THEN Put(entity, "status", "todo")
  ELSE entity

\* mutation: the default priority is 1
ApplyPriority_DefaultsToOne(entity, dto) ==
  IF Has(dto, "priority") THEN Put(entity, "priority", dto.priority)
  ELSE IF FalsyNumber(entity, "priority") THEN Put(entity, "priority", 1)
  ELSE entity

ApplyPriority(entity, dto) ==
  IF Has(dto, "priority") THEN Put(entity, "priority", dto.priority)
  ELSE IF FalsyNumber(entity, "priority") THEN Put(entity, "priority", DefaultPriority)
  ELSE entity

ApplyDueDate(entity, dto) ==
  IF Has(dto, "dueDate")
  THEN IF dto.dueDate \in {JsonNull, JsonUndefined}
       THEN Put(entity, "dueDate", NullDate)
       ELSE Put(entity, "dueDate", <<ParseDate(dto.dueDate)>>)
  ELSE entity

\* tagEntities are kept as the sequence of their values
ApplyTags(entity, dto) ==
  IF Has(dto, "tags") THEN Put(entity, "tagEntities", normalizeTags(dto.tags))
  ELSE IF ~Has(entity, "tagEntities") THEN Put(entity, "tagEntities", <<>>)
  ELSE entity

applyDtoToEntity(entity, dto) ==
  ApplyTags(ApplyDueDate(ApplyPriority(ApplyStatus(ApplyTitle(entity, dto), dto), dto), dto), dto)

taskEntityToPlain(task) ==
  [id |-> task.id,
   title |-> task.title,
   status |-> task.status,
   priority |-> task.priority,
   dueDate |-> IF Has(task, "dueDate") /\ task.dueDate # NullDate
               THEN ToISOString(task.dueDate) ELSE JsonNull,
   tags |-> IF Has(task, "tagEntities") THEN task.tagEntities ELSE <<>>,
   version |-> task.version,
   createdAt |-> ToISOString(task.createdAt),
   updatedAt |-> ToISOString(task.updatedAt)]

toTaskResponse(task) == taskEntityToPlain(task)

toTaskCollectionResponse(result) ==
  [data |-> [i \in 1..Len(result.data) |-> taskEntityToPlain(result.data[i])],
   meta |-> [total |-> result.total,
             page |-> result.page,
             pageSize |-> result.pageSize,
             statusCounts |-> result.statusCounts]]

\* ------------------------------------------------ InMemoryTaskRepository
\* Map iteration order is insertion order; identifiers are handed out in
\* increasing order and Map.set of a present key keeps its position.
RECURSIVE StoreValuesUpTo(_, _)
StoreValuesUpTo(st, n) ==
  IF n = 0 THEN <<>>
  ELSE IF n \in DOMAIN st THEN Append(StoreValuesUpTo(st, n - 1), st[n])
       ELSE StoreValuesUpTo(st, n - 1)

StoreValues(st) == StoreValuesUpTo(st, MaxTasks)
\* mutation: a new row starts at version 1
RepoCreate_StartsAtOne(st, task, id, now) ==
  Put(st, id, Spread(task, [id |-> id, version |-> 1,
                            createdAt |-> <<now>>, updatedAt |-> <<now>>]))


RepoCreate(st, task, id, now) ==
  Put(st, id, Spread(task, [id |-> id, version |-> 0,
                            createdAt |-> <<now>>, updatedAt |-> <<now>>]))

\* save throws Error('Task not found') when the row is gone
RepoSaveThrows(st, task) == task.id \notin DOMAIN st
\* mutation: the version is taken from the entity handed in, not incremented
RepoSave_KeepsVersion(st, task, now) ==
  Put(st, task.id, Spread(Spread(st[task.id], task), [updatedAt |-> <<now>>]))


RepoSave(st, task, now) ==
  LET existing == st[task.id]
  IN  Put(st, task.id,
          Spread(Spread(existing, task),
                 [version |-> existing.version + 1, updatedAt |-> <<now>>]))

RepoFindById(st, id) == IF id \in DOMAIN st THEN st[id] ELSE EmptyObject
\* mutation: the row is not removed
RepoDelete_Keeps(st, id) == st


RepoDelete(st, id) == [x \in DOMAIN st \ {id} |-> st[x]]

CountStatus(st, status) == Cardinality({i \in DOMAIN st : st[i].status = status})

\* mutation: the status counts are taken over the filtered tasks
RepoList_CountsFiltered(st, options) ==
  LET MatchStatus(task) ==
        IF Has(options, "status") THEN task.status = options.status ELSE TRUE
      MatchTag(task) ==
        IF Has(options, "tag")
        THEN \E i \in 1..Len(task.tagEntities) : task.tagEntities[i] = options.tag
        ELSE TRUE
      MatchSearch(task) ==
        IF Has(options, "search")
        THEN Includes(ToLowerCase(task.title), ToLowerCase(options.search))
        ELSE TRUE
      items == SelectSeq(SelectSeq(SelectSeq(StoreValues(st), MatchStatus),
                                   MatchTag), MatchSearch)
      offset == (options.page - 1) * options.pageSize
  IN  [data |-> Slice(items, offset, offset + options.pageSize),
       total |-> Len(items),
       page |-> options.page,
       pageSize |-> options.pageSize,
       statusCounts |->
         [s \in {"todo", "doing", "done"} |->
            Cardinality({n \in 1..Len(items) : items[n].status = s})]]

RepoList(st, options) ==
  LET MatchStatus(task) ==
        IF Has(options, "status") THEN task.status = options.status ELSE TRUE
      MatchTag(task) ==
        IF Has(options, "tag")
        THEN \E i \in 1..Len(task.tagEntities) : task.tagEntities[i] = options.tag
        ELSE TRUE
      MatchSearch(task) ==
        IF Has(options, "search")
        THEN Includes(ToLowerCase(task.title), ToLowerCase(options.search))
        ELSE TRUE
      items == SelectSeq(SelectSeq(SelectSeq(StoreValues(st), MatchStatus),
                                   MatchTag), MatchSearch)
      offset == (options.page - 1) * options.pageSize
  IN  [data |-> Slice(items, offset, offset + options.pageSize),
       total |-> Len(items),
       page |-> options.page,
       pageSize |-> options.pageSize,
       statusCounts |-> [todo |-> CountStatus(st, "todo"),
                         doing |-> CountStatus(st, "doing"),
                         done |-> CountStatus(st, "done")]]

\* ------------------------------------------------ utils/task-cache.util.ts
\* The key is a text: a sequence whose elements are the characters of the
\* tag and search strings and, as one element each, the fixed parts, the
\* enumerated words and the numerals.
\* JSON.stringify of a string: quotes and backslashes are escaped
RECURSIVE JsonEscape(_)
JsonEscape(s) ==
  IF s = <<>> THEN <<>>
  ELSE (IF Head(s) \in {"\"", "\\"} THEN <<"\\", Head(s)>> ELSE <<Head(s)>>)
       \o JsonEscape(Tail(s))

JsonString(s) == <<"\"">> \o JsonEscape(s) \o <<"\"">>

\* options.k ?? null, stringified
OrNull(options, k) ==
  IF ~Has(options, k) THEN <<"null">>
  ELSE IF k \in {"tag", "search"} THEN JsonString(options[k])
  ELSE IF k \in {"page", "pageSize"} THEN <<ToString(options[k])>>
  ELSE <<"\"", options[k], "\"">>

JsonMember(options, k) == <<"\"" \o k \o "\":">> \o OrNull(options, k)

\* mutation: the search text is left out of the key
createListCacheKey_NoSearch(options) ==
  <<"tasks:list:{">>
  \o JsonMember(options, "status") \o <<",">> \o JsonMember(options, "tag")
  \o <<",">> \o JsonMember(options, "sortBy")
  \o <<",">> \o <<"\"sortOrder\":", "\"", options.sortOrder, "\"">>
  \o <<",">> \o JsonMember(options, "page") \o <<",">> \o JsonMember(options, "pageSize")
  \o <<"}">>

createListCacheKey(options) ==
  <<"tasks:list:{">>
  \o JsonMember(options, "status") \o <<",">> \o JsonMember(options, "tag")
  \o <<",">> \o JsonMember(options, "search") \o <<",">> \o JsonMember(options, "sortBy")
  \o <<",">> \o <<"\"sortOrder\":", "\"", options.sortOrder, "\"">>
  \o <<",">> \o JsonMember(options, "page") \o <<",">> \o JsonMember(options, "pageSize")
  \o <<"}">>

\* ------------------------------------------------ common/problem-details.ts
HttpStatusesUrl(status) == "https://httpstatuses.com/" \o ToString(status)

createProblemDetails(status, title, overrides) ==
  Spread([type |-> IF Has(overrides, "type") THEN overrides.type
                   ELSE HttpStatusesUrl(status),
          title |-> title,
          status |-> status],
         [k \in DOMAIN overrides \cap {"detail", "instance", "errors"} |-> overrides[k]])

\* what a handler threw: the exception class, its HTTP status, its problem body
NoError == [name |-> "none", status |-> 0, problem |-> EmptyObject]

ProblemDetailsException(problem) ==
  [name |-> "ProblemDetailsException", status |-> problem.status, problem |-> problem]

\* the body HttpException builds for Nest's own exception classes
HttpExceptionBody(status, message, error) ==
  [message |-> message, error |-> error, statusCode |-> status]

NotFoundException ==
  [name |-> "NotFoundException", status |-> HttpNotFound,
   problem |-> HttpExceptionBody(HttpNotFound, "Task with id ${id} not found", "Not Found")]

\* exceptions that are not HttpExceptions: null.trim(), a failed INSERT or UPDATE
TypeError == [name |-> "TypeError", status |-> HttpInternalError, problem |-> EmptyObject]

QueryFailedError ==
  [name |-> "QueryFailedError", status |-> HttpInternalError, problem |-> EmptyObject]

\* the Error thrown by InMemoryTaskRepository.save, left to the framework
RepositoryError == [name |-> "Error", status |-> HttpInternalError, problem |-> EmptyObject]

VersionConflict ==
  ProblemDetailsException(
    createProblemDetails(HttpConflict, "Version conflict",
      [type |-> "https://example.com/problems/version-conflict",
       detail |-> "The task was updated by another request. Please refetch and try again."]))

InvalidDueDate ==
  ProblemDetailsException(
    createProblemDetails(HttpBadRequest, "Invalid due date provided",
      [type |-> "https://example.com/problems/invalid-due-date",
       detail |-> "dueDate must be a valid ISO-8601 date string or null."]))

\* what applying a draft and writing the row throws, in the order the
\* statements run: the title, the due date, then the INSERT or UPDATE
DraftFailure(dto) ==
  IF TitleIsNull(dto) THEN TypeError
  ELSE IF DueDateIsInvalid(dto) THEN InvalidDueDate
  ELSE IF NullColumn(dto) THEN QueryFailedError
  ELSE NoError

\* ------------------------------------------------------- tasks.service.ts
\* listTasks, lines 51-63: the options handed to createListCacheKey
CacheKeyOptions(query) ==
  LET o1 == [sortOrder |-> IF Has(query, "sortOrder") THEN query.sortOrder ELSE "asc"]
      o2 == IF Has(query, "status") THEN Put(o1, "status", query.status) ELSE o1
      o3 == IF Has(query, "tag") THEN Put(o2, "tag", Trim(query.tag)) ELSE o2
      o4 == IF Has(query, "search") THEN Put(o3, "search", Trim(query.search)) ELSE o3
      o5 == IF Has(query, "sortBy") THEN Put(o4, "sortBy", query.sortBy) ELSE o4
      o6 == IF Has(query, "page") THEN Put(o5, "page", query.page) ELSE o5
  IN  IF Has(query, "pageSize") THEN Put(o6, "pageSize", query.pageSize) ELSE o6

ListCacheKey(query) == createListCacheKey(CacheKeyOptions(query))

\* listTasks, lines 71-79: the options handed to repository.list
ListOptions(query) ==
  LET k == CacheKeyOptions(query)
      drop == {f \in {"tag", "search"} : Has(k, f) /\ Len(k[f]) = 0}
  IN  [f \in DOMAIN k \ drop |-> k[f]]
\* mutation: only an older draft is a conflict
VersionMatches_AcceptsNewer(task, dto) == task.version <= dto.version

\* updateTask, line 94: task.version !== dto.version is the conflict
VersionMatches(task, dto) == task.version = dto.version

\* mutation: clearListCache forgets its keys without deleting them
CacheAfterClear_KeepsAll(c, keys) == c

\* clearListCache: every tracked key is deleted, then the set is emptied
CacheAfterClear(c, keys) == [k \in DOMAIN c \ keys |-> c[k]]

KeysAfterClear(keys) == {}

\* mutation: the response is not stored
CacheSet_Drops(c, key, value) == c

CacheSet(c, key, value) == Put(c, key, value)

\* ------------------------------------------------------------------ inputs
CreateDrafts ==
  { [title |-> <<"a">>],
    [title |-> <<" ", "B">>, status |-> "done", priority |-> 5,
     dueDate |-> <<"iso", 1, "date">>,
     tags |-> << <<"x", " ">>, <<" ", "x">>, <<"y">> >>],
    [title |-> <<"b">>, priority |-> 1, dueDate |-> <<"not-a-date">>] }

UpdatePatches ==
  { EmptyObject,
    [title |-> <<"b", " ">>],
    [status |-> "done", priority |-> 2, dueDate |-> <<"iso", 2, "full">>],
    [dueDate |-> JsonUndefined, tags |-> << <<"y">>, <<" ">>, <<"y">> >>],
    [dueDate |-> <<"not-a-date">>] }

UpdateDrafts == {Put(p, "version", v) : p \in UpdatePatches, v \in 0..MaxVersionArg}

Queries ==
  { [page |-> 1, pageSize |-> 25],
    [sortOrder |-> "asc", page |-> 1, pageSize |-> 25],
    [search |-> <<" ">>, page |-> 1, pageSize |-> 25],
    [status |-> "done", search |-> <<" ", "B">>, sortOrder |-> "desc",
     page |-> 1, pageSize |-> 1],
    [tag |-> <<"x">>, sortBy |-> "priority", page |-> 2, pageSize |-> 1] }

\* ------------------------------------------------------------------- state
NoRequest == [pc |-> "idle"]

\* queried: the call invoked repository.list; cleared: the cache keys its
\* clearListCache deleted
\* gone: the ids whose deleteTask had returned when the call started
Outcome(n, op, id, dto, thrown, result, queried, cleared, gone) ==
  [n |-> n, op |-> op, id |-> id, dto |-> dto, thrown |-> thrown,
   result |-> result, queried |-> queried, cleared |-> cleared, gone |-> gone]

\* no response was sent, no function was applied
NoResponse == [request |-> [method |-> "none"], status |-> 0, body |-> EmptyObject]

NoCall == [fn |-> "none"]

NoResult == EmptyObject

\* taskApi as loaded: nothing cached, nothing in flight, no call made
MaxApiInFlight == 1

NoFetch == [key |-> <<>>]

InitTaskApi ==
  [now |-> 0, ticks |-> 0, cache |-> EmptyObject,
   pending |-> [r \in 1..MaxApiInFlight |-> NoFetch],
   server |-> 0, calls |-> 0, fetches |-> 0,
   token |-> <<>>, op |-> "none", mutation |-> EmptyObject,
   started |-> EmptyObject, returned |-> EmptyObject,
   last |-> EmptyObject, fetched |-> EmptyObject]

\* useTaskMutations before any query has data or any mutation is issued
MaxMutations == 2

NoMutation == [op |-> "none"]

InitQueryClient ==
  [queries |-> EmptyObject,
   mutations |-> [m \in 1..MaxMutations |-> NoMutation],
   issued |-> 0,
   settled |-> EmptyObject]

\* q2 as loaded: const cache = {}, nothing fetched, nothing returned
MaxUserFetches == 2

NoUserFetch == [id |-> <<>>]

InitUsers ==
  [heap |-> <<>>, cache |-> EmptyObject,
   pending |-> [r \in 1..MaxUserFetches |-> NoUserFetch],
   calls |-> 0, fetches |-> 0, returned |-> <<>>,
   started |-> <<>>, ended |-> EmptyObject, rejected |-> {},
   first |-> EmptyObject, latest |-> EmptyObject]

\* createInitialState() of a TaskForm in create mode
InitTaskForm == [mode |-> "create", tags |-> <<>>, tagInput |-> <<>>, edits |-> 0]

\* ToastProvider as mounted
InitToastProvider == [toasts |-> <<>>, timeouts |-> EmptyObject, nextId |-> 0]

InitHooks ==
  /\ queryClient = InitQueryClient
  /\ users = InitUsers
  /\ taskForm = InitTaskForm
  /\ toastProvider = InitToastProvider

InitService ==
  /\ store = EmptyObject
  /\ nextId = 1
  /\ clock = 0
  /\ cache = EmptyObject
  /\ listCacheKeys = {}
  /\ calls = 0
  /\ outcome = Outcome(0, "none", 0, EmptyObject, NoError, EmptyObject, FALSE, {}, {})
  /\ reqs = [r \in 1..MaxInFlight |-> NoRequest]
  /\ updCount = EmptyObject
  /\ okVersions = EmptyObject
  /\ deleted = {}
  /\ served = EmptyObject

Init ==
  /\ InitService
  /\ httpResponse = NoResponse
  /\ fnArgs = NoCall
  /\ fnResult = NoResult
  /\ taskApi = InitTaskApi
  /\ InitHooks

\* a call starts: it is counted and the clock has moved on
Begin(max) ==
  /\ calls < max
  /\ calls' = calls + 1
  /\ clock' = clock + 1

\* mutant: a failing handler empties the list cache on its way out
Throw_ClearsCache(op, id, dto, thrown) ==
  /\ outcome' = Outcome(calls', op, id, dto, thrown, EmptyObject, FALSE, {}, deleted)
  /\ cache' = EmptyObject
  /\ UNCHANGED <<store, nextId, listCacheKeys, updCount, okVersions,
                 deleted, served>>

\* a handler that throws changes nothing but what it reports
Throw(op, id, dto, thrown) ==
  /\ outcome' = Outcome(calls', op, id, dto, thrown, EmptyObject, FALSE, {}, deleted)
  /\ UNCHANGED <<store, nextId, cache, listCacheKeys, updCount, okVersions,
                 deleted, served>>

\* ------------------------------------------ handlers run to completion (Spec)
CreateTask(dto) ==
  /\ Begin(MaxCalls)
  /\ nextId <= MaxTasks
  /\ UNCHANGED reqs
  /\ IF TitleIsNull(dto)
     THEN Throw("create", 0, dto, TypeError)
     ELSE IF DueDateIsInvalid(dto)
     THEN Throw("create", 0, dto, InvalidDueDate)
     ELSE IF NullColumn(dto)
     THEN Throw("create", 0, dto, QueryFailedError)
     ELSE LET entity == applyDtoToEntity(EmptyObject, dto)
              saved == RepoCreate(store, entity, nextId, clock')
          IN  /\ store' = saved
              /\ nextId' = nextId + 1
              /\ cache' = CacheAfterClear(cache, listCacheKeys)
              /\ listCacheKeys' = KeysAfterClear(listCacheKeys)
              /\ outcome' = Outcome(calls', "create", nextId, dto, NoError,
                                    toTaskResponse(saved[nextId]), FALSE,
                                    DOMAIN cache \ DOMAIN cache', deleted)
              /\ updCount' = Put(updCount, nextId, 0)
              /\ served' = EmptyObject
              /\ UNCHANGED <<okVersions, deleted>>

ListTasks(query) ==
  LET cacheKey == ListCacheKey(query)
  IN  /\ Begin(MaxCalls)
      /\ UNCHANGED <<reqs, store, nextId, updCount, okVersions, deleted>>
      /\ IF cacheKey \in DOMAIN cache
         THEN /\ outcome' = Outcome(calls', "list", 0, query, NoError,
                                    cache[cacheKey], FALSE, {}, deleted)
              /\ served' = Put(served, CacheKeyOptions(query), cache[cacheKey])
              /\ UNCHANGED <<cache, listCacheKeys>>
         ELSE LET response ==
                    toTaskCollectionResponse(RepoList(store, ListOptions(query)))
              IN  /\ cache' = CacheSet(cache, cacheKey, response)
                  /\ listCacheKeys' = listCacheKeys \cup {cacheKey}
                  /\ outcome' = Outcome(calls', "list", 0, query, NoError,
                                        response, TRUE, {}, deleted)
                  /\ served' = Put(served, CacheKeyOptions(query), response)

UpdateTask(id, dto) ==
  LET task == RepoFindById(store, id)
  IN  /\ Begin(MaxCalls)
      /\ UNCHANGED reqs
      /\ IF task = EmptyObject
         THEN Throw("update", id, dto, NotFoundException)
         ELSE IF ~VersionMatches(task, dto)
         THEN Throw("update", id, dto, VersionConflict)
         ELSE IF TitleIsNull(dto)
         THEN Throw("update", id, dto, TypeError)
         ELSE IF DueDateIsInvalid(dto)
         THEN Throw("update", id, dto, InvalidDueDate)
         ELSE IF NullColumn(dto)
         THEN Throw("update", id, dto, QueryFailedError)
         ELSE LET saved == RepoSave(store, applyDtoToEntity(task, dto), clock')
              IN  /\ store' = saved
                  /\ cache' = CacheAfterClear(cache, listCacheKeys)
                  /\ listCacheKeys' = KeysAfterClear(listCacheKeys)
                  /\ outcome' = Outcome(calls', "update", id, dto, NoError,
                                        toTaskResponse(saved[id]), FALSE,
                                        DOMAIN cache \ DOMAIN cache', deleted)
                  /\ updCount' = Put(updCount, id, updCount[id] + 1)
                  /\ okVersions' = Put(okVersions, <<id, dto.version>>,
                       IF <<id, dto.version>> \in DOMAIN okVersions
                       THEN okVersions[<<id, dto.version>>] + 1 ELSE 1)
                  /\ served' = EmptyObject
                  /\ UNCHANGED <<nextId, deleted>>

DeleteTask(id) ==
  LET task == RepoFindById(store, id)
  IN  /\ Begin(MaxCalls)
      /\ UNCHANGED reqs
      /\ IF task = EmptyObject
         THEN Throw("delete", id, EmptyObject, NotFoundException)
         ELSE /\ store' = RepoDelete(store, id)
              /\ cache' = CacheAfterClear(cache, listCacheKeys)
              /\ listCacheKeys' = KeysAfterClear(listCacheKeys)
              /\ outcome' = Outcome(calls', "delete", id, EmptyObject, NoError,
                                    EmptyObject, FALSE,
                                    DOMAIN cache \ DOMAIN cache', deleted)
              /\ deleted' = deleted \cup {id}
              /\ served' = EmptyObject
              /\ UNCHANGED <<nextId, updCount, okVersions>>

\* the TTL of a cached entry elapses and the store drops it
Expire(key) ==
  /\ key \in DOMAIN cache
  /\ cache' = [k \in DOMAIN cache \ {key} |-> cache[k]]
  /\ served' = [o \in {x \in DOMAIN served : createListCacheKey(x) # key} |-> served[o]]
  /\ UNCHANGED <<store, nextId, clock, listCacheKeys, calls, outcome, reqs,
                 updCount, okVersions, deleted>>

Next ==
  \/ \E dto \in CreateDrafts : CreateTask(dto) /\ UNCHANGED outsideService
  \/ \E query \in Queries : ListTasks(query) /\ UNCHANGED outsideService
  \/ \E id \in Ids, dto \in UpdateDrafts : UpdateTask(id, dto) /\ UNCHANGED outsideService
  \/ \E id \in Ids : DeleteTask(id) /\ UNCHANGED outsideService
  \/ \E key \in DOMAIN cache : Expire(key) /\ UNCHANGED outsideService

Spec == Init /\ [][Next]_vars

\* --------------------------------- handlers cut at their awaits (SpecConc)
\* A call made before an await acts on the repository or the cache when it is
\* made (the in-memory repository and the memory store act synchronously);
\* the code after the await is a later step of the same request.
ConcCreateDrafts ==
  { [title |-> <<"a">>],
    [title |-> <<"b">>, status |-> "done", dueDate |-> <<"not-a-date">>] }

ConcUpdateDrafts ==
  { [title |-> <<"b">>, version |-> 0],
    [status |-> "done", version |-> 0],
    [status |-> "doing", version |-> 1] }

ConcQueries ==
  { [page |-> 1, pageSize |-> 25],
    [status |-> "done", page |-> 1, pageSize |-> 25] }

Slots == 1..MaxInFlight

\* the request takes the first free slot
Free(r) == reqs[r].pc = "idle" /\ \A q \in 1..(r - 1) : reqs[q].pc # "idle"

\* the cache keys written by a listTasks request that has not returned yet
PendingKeys == {ListCacheKey(reqs[q].dto) : q \in {x \in Slots : reqs[x].pc = "set"}}

\* before: the cache keys that were present, written by listTasks calls that
\* had returned, when the request started, and that were not written since
Request(pc, op, id, dto, local) ==
  [pc |-> pc, op |-> op, n |-> calls', id |-> id, dto |-> dto, local |-> local,
   before |-> DOMAIN cache \ PendingKeys, gone |-> deleted, cleared |-> {}]

Goto(r, pc, local) ==
  reqs' = [reqs EXCEPT ![r] = [@ EXCEPT !.pc = pc, !.local = local]]

Return(r, thrown, result, queried) ==
  /\ reqs' = [reqs EXCEPT ![r] = NoRequest]
  /\ outcome' = Outcome(reqs[r].n, reqs[r].op, reqs[r].id, reqs[r].dto, thrown,
                        result, queried, reqs[r].cleared, reqs[r].gone)

StartCreate(r, dto) ==
  /\ Free(r)
  /\ Begin(MaxConcCalls)
  /\ nextId <= MaxTasks
  /\ UNCHANGED <<cache, listCacheKeys, okVersions, deleted, served>>
  /\ IF DraftFailure(dto) # NoError
     THEN /\ outcome' = Outcome(calls', "create", 0, dto, DraftFailure(dto),
                                EmptyObject, FALSE, {}, deleted)
          /\ UNCHANGED <<store, nextId, reqs, updCount>>
     ELSE LET saved == RepoCreate(store, applyDtoToEntity(EmptyObject, dto),
                                  nextId, clock')
          IN  /\ store' = saved
              /\ nextId' = nextId + 1
              /\ updCount' = Put(updCount, nextId, 0)
              /\ reqs' = [reqs EXCEPT ![r] =
                            Request("clear", "create", nextId, dto, saved[nextId])]
              /\ UNCHANGED outcome

StartList(r, query) ==
  LET cacheKey == ListCacheKey(query)
  IN  /\ Free(r)
      /\ Begin(MaxConcCalls)
      /\ reqs' = [reqs EXCEPT ![r] =
                    Request("got", "list", 0, query,
                            IF cacheKey \in DOMAIN cache THEN cache[cacheKey]
                            ELSE EmptyObject)]
      /\ UNCHANGED <<store, nextId, cache, listCacheKeys, outcome, updCount,
                     okVersions, deleted, served>>

\* if (cached) return cached; else repository.list(...)
ListAfterGet(r) ==
  /\ reqs[r].pc = "got"
  /\ UNCHANGED <<store, nextId, clock, cache, listCacheKeys, calls, updCount,
                 okVersions, deleted, served>>
  /\ IF reqs[r].local # EmptyObject
     THEN Return(r, NoError, reqs[r].local, FALSE)
     ELSE /\ Goto(r, "listed", RepoList(store, ListOptions(reqs[r].dto)))
          /\ UNCHANGED outcome

\* cacheManager.set(cacheKey, response)
ListAfterList(r) ==
  LET response == toTaskCollectionResponse(reqs[r].local)
      cacheKey == ListCacheKey(reqs[r].dto)
  IN  /\ reqs[r].pc = "listed"
      /\ cache' = CacheSet(cache, cacheKey, response)
      /\ reqs' = [q \in Slots |->
                    IF q = r THEN [reqs[r] EXCEPT !.pc = "set", !.local = response]
                    ELSE IF reqs[q].pc = "idle" THEN reqs[q]
                    ELSE [reqs[q] EXCEPT !.before = @ \ {cacheKey}]]
      /\ UNCHANGED <<store, nextId, clock, listCacheKeys, calls, outcome, updCount,
                     okVersions, deleted, served>>

\* listCacheKeys.add(cacheKey); return response
ListAfterSet(r) ==
  /\ reqs[r].pc = "set"
  /\ listCacheKeys' = listCacheKeys \cup {ListCacheKey(reqs[r].dto)}
  /\ Return(r, NoError, reqs[r].local, TRUE)
  /\ UNCHANGED <<store, nextId, clock, cache, calls, updCount, okVersions,
                 deleted, served>>

StartUpdate(r, id, dto) ==
  /\ Free(r)
  /\ Begin(MaxConcCalls)
  /\ reqs' = [reqs EXCEPT ![r] =
                Request("found", "update", id, dto, RepoFindById(store, id))]
  /\ UNCHANGED <<store, nextId, cache, listCacheKeys, outcome, updCount,
                 okVersions, deleted, served>>

\* the existence check, the version check, applyDtoToEntity, repository.save
UpdateAfterFind(r) ==
  LET task == reqs[r].local
      dto == reqs[r].dto
  IN  /\ reqs[r].pc = "found" /\ reqs[r].op = "update"
      /\ UNCHANGED <<nextId, clock, cache, listCacheKeys, calls, okVersions,
                     deleted, served>>
      /\ IF task = EmptyObject
         THEN Return(r, NotFoundException, EmptyObject, FALSE) /\ UNCHANGED <<store, updCount>>
         ELSE IF ~VersionMatches(task, dto)
         THEN Return(r, VersionConflict, EmptyObject, FALSE) /\ UNCHANGED <<store, updCount>>
         ELSE IF DraftFailure(dto) # NoError
         THEN Return(r, DraftFailure(dto), EmptyObject, FALSE) /\ UNCHANGED <<store, updCount>>
         ELSE IF RepoSaveThrows(store, task)
         THEN Return(r, RepositoryError, EmptyObject, FALSE) /\ UNCHANGED <<store, updCount>>
         ELSE LET saved == RepoSave(store, applyDtoToEntity(task, dto), clock)
              IN  /\ store' = saved
                  /\ updCount' = Put(updCount, task.id, updCount[task.id] + 1)
                  /\ Goto(r, "clear", saved[task.id])
                  /\ UNCHANGED outcome

StartDelete(r, id) ==
  /\ Free(r)
  /\ Begin(MaxConcCalls)
  /\ reqs' = [reqs EXCEPT ![r] =
                Request("found", "delete", id, EmptyObject, RepoFindById(store, id))]
  /\ UNCHANGED <<store, nextId, cache, listCacheKeys, outcome, updCount,
                 okVersions, deleted, served>>

\* the existence check, repository.delete
DeleteAfterFind(r) ==
  /\ reqs[r].pc = "found" /\ reqs[r].op = "delete"
  /\ UNCHANGED <<nextId, clock, cache, listCacheKeys, calls, updCount,
                 okVersions, deleted, served>>
  /\ IF reqs[r].local = EmptyObject
     THEN Return(r, NotFoundException, EmptyObject, FALSE) /\ UNCHANGED store
     ELSE /\ store' = RepoDelete(store, reqs[r].id)
          /\ Goto(r, "clear", EmptyObject)
          /\ UNCHANGED outcome

\* what the handler returns once clearListCache has resolved
Finish(r) ==
  /\ Return(r, NoError,
            IF reqs[r].op = "delete" THEN EmptyObject ELSE toTaskResponse(reqs[r].local),
            FALSE)
  /\ deleted' = IF reqs[r].op = "delete" THEN deleted \cup {reqs[r].id} ELSE deleted
  /\ okVersions' =
       IF reqs[r].op = "update"
       THEN LET p == <<reqs[r].id, reqs[r].dto.version>>
            IN  Put(okVersions, p, IF p \in DOMAIN okVersions THEN okVersions[p] + 1 ELSE 1)
       ELSE okVersions

\* clearListCache up to its await: the size check and the del of every key
ClearListCacheStart(r) ==
  /\ reqs[r].pc = "clear"
  /\ UNCHANGED <<store, nextId, clock, calls, updCount, served, listCacheKeys>>
  /\ IF listCacheKeys = {}
     THEN Finish(r) /\ UNCHANGED cache
     ELSE /\ cache' = CacheAfterClear(cache, listCacheKeys)
          /\ reqs' = [reqs EXCEPT ![r] =
                        [@ EXCEPT !.pc = "clearing",
                                  !.cleared = DOMAIN cache \cap listCacheKeys]]
          /\ UNCHANGED <<outcome, okVersions, deleted>>

\* clearListCache after its await: listCacheKeys.clear()
ClearListCacheFinish(r) ==
  /\ reqs[r].pc = "clearing"
  /\ listCacheKeys' = KeysAfterClear(listCacheKeys)
  /\ Finish(r)
  /\ UNCHANGED <<store, nextId, clock, cache, calls, updCount, served>>

ExpireConc(key) ==
  /\ key \in DOMAIN cache
  /\ cache' = [k \in DOMAIN cache \ {key} |-> cache[k]]
  /\ UNCHANGED <<store, nextId, clock, listCacheKeys, calls, outcome, reqs,
                 updCount, okVersions, deleted, served>>

NextConc ==
  \/ \E r \in Slots, dto \in ConcCreateDrafts : StartCreate(r, dto) /\ UNCHANGED outsideService
  \/ \E r \in Slots, query \in ConcQueries : StartList(r, query) /\ UNCHANGED outsideService
  \/ \E r \in Slots : ListAfterGet(r) /\ UNCHANGED outsideService
  \/ \E r \in Slots : ListAfterList(r) /\ UNCHANGED outsideService
  \/ \E r \in Slots : ListAfterSet(r) /\ UNCHANGED outsideService
  \/ \E r \in Slots, id \in Ids, dto \in ConcUpdateDrafts : StartUpdate(r, id, dto) /\ UNCHANGED outsideService
  \/ \E r \in Slots : UpdateAfterFind(r) /\ UNCHANGED outsideService
  \/ \E r \in Slots, id \in Ids : StartDelete(r, id) /\ UNCHANGED outsideService
  \/ \E r \in Slots : DeleteAfterFind(r) /\ UNCHANGED outsideService
  \/ \E r \in Slots : ClearListCacheStart(r) /\ UNCHANGED outsideService
  \/ \E r \in Slots : ClearListCacheFinish(r) /\ UNCHANGED outsideService
  \/ \E key \in DOMAIN cache : ExpireConc(key) /\ UNCHANGED outsideService

SpecConc == Init /\ [][NextConc]_vars

\* ================================================================= claims
\* the step is a completed call of handler op
Called(op) == outcome'.n # outcome.n /\ outcome'.op = op

Succeeded(o) == o.thrown = NoError

IsMutation(o) == o.op \in {"create", "update", "delete"}

\* the date a supplied dueDate text denotes: null or a parsed Date
DateOf(text) ==
  IF text \in {JsonNull, JsonUndefined} THEN NullDate ELSE <<ParseDate(text)>>

C2_ConflictChangesNothing ==
  [][(Called("update") /\ outcome'.id \in DOMAIN store
        /\ outcome'.dto.version # store[outcome'.id].version)
     => /\ outcome'.thrown.name = "ProblemDetailsException"
        /\ outcome'.thrown.status = 409
        /\ outcome'.thrown.problem.status = 409
        /\ outcome'.thrown.problem.type = "https://example.com/problems/version-conflict"
        /\ store' = store
        /\ cache' = cache
        /\ listCacheKeys' = listCacheKeys]_vars

\* a draft with a higher version was rejected while a list result was cached
C2_Witness ==
  /\ outcome.op = "update"
  /\ outcome.thrown.status = 409
  /\ outcome.id \in DOMAIN store
  /\ outcome.dto.version > store[outcome.id].version
  /\ Has(outcome.dto, "title")
  /\ cache # EmptyObject

C5_AsStated ==
  (outcome.op = "create" /\ Succeeded(outcome)) =>
    LET dto == outcome.dto
        row == store[outcome.id]
    IN  /\ row.title = Trim(dto.title)
        /\ row.status = IF Has(dto, "status") THEN dto.status ELSE "todo"
        /\ row.priority = IF Has(dto, "priority") THEN dto.priority ELSE 3
        /\ row.tagEntities = IF Has(dto, "tags") THEN dto.tags ELSE <<>>
        /\ Has(dto, "dueDate") => row.dueDate = DateOf(dto.dueDate)

\* C5 (amended): createTask stores and returns the defaults for omitted
\* fields (status todo, priority 3, tags []) and every supplied field as
\* supplied, the title trimmed and the tags trimmed, without blank entries
\* and without duplicates.
C5_CreateAppliesDefaults ==
  (outcome.op = "create" /\ Succeeded(outcome)) =>
    LET dto == outcome.dto
        row == store[outcome.id]
        res == outcome.result
        tags == row.tagEntities
    IN  /\ row.title = Trim(dto.title) /\ res.title = row.title
        /\ row.status = (IF Has(dto, "status") THEN dto.status ELSE "todo")
        /\ res.status = row.status
        /\ row.priority = (IF Has(dto, "priority") THEN dto.priority ELSE 3)
        /\ res.priority = row.priority
        /\ res.tags = tags
        /\ ~Has(dto, "tags") => tags = <<>>
        /\ Has(dto, "tags") =>
             /\ {tags[i] : i \in 1..Len(tags)}
                  = {Trim(dto.tags[i]) : i \in 1..Len(dto.tags)} \ {<<>>}
             /\ \A i, j \in 1..Len(tags) : tags[i] = tags[j] => i = j
        /\ Has(dto, "dueDate") => row.dueDate = DateOf(dto.dueDate)
        /\ res.id = outcome.id /\ row.id = outcome.id

\* a draft with only a title was created
C5_Witness ==
  /\ outcome.op = "create" /\ Succeeded(outcome)
  /\ DOMAIN outcome.dto = {"title"}
  /\ outcome.result.status = "todo"
  /\ outcome.result.priority = 3
  /\ outcome.result.tags = <<>>

\* C6: a listTasks call whose normalized parameters were listed before, with
\* no successful mutation and no expiry of that entry since, does not invoke
\* repository.list and returns the result of the earlier call.
C6_SecondListHitsCache ==
  [][(Called("list") /\ CacheKeyOptions(outcome'.dto) \in DOMAIN served)
     => /\ ~outcome'.queried
        /\ outcome'.result = served[CacheKeyOptions(outcome'.dto)]]_vars

\* a query was answered from the cache: its parameters differ from the first
\* call's as given but not as normalized
C6_Witness ==
  /\ outcome.op = "list"
  /\ ~outcome.queried
  /\ Has(outcome.dto, "sortOrder")
  /\ Len(outcome.result.data) > 0

C10_DeleteUnknownIsNotFound ==
  [][/\ (Called("delete") /\ outcome'.id \notin DOMAIN store)
          => /\ outcome'.thrown.name = "NotFoundException"
             /\ outcome'.thrown.status = 404
             /\ store' = store /\ cache' = cache /\ listCacheKeys' = listCacheKeys
     /\ (Called("delete") /\ outcome'.id \in deleted)
          => outcome'.thrown.name = "NotFoundException"]_vars

\* the second delete of a task failed while a list result was cached
C10_Witness ==
  /\ outcome.op = "delete"
  /\ outcome.thrown.status = 404
  /\ outcome.id \in deleted
  /\ cache # EmptyObject

\* C3: of the updateTask requests for one task that carry the same version,
\* at most one succeeds, however their findById, version check and save
\* steps interleave.
C3_NoLostUpdate ==
  \A p \in DOMAIN okVersions : okVersions[p] <= 1

\* C8: when a create, update or delete request returns successfully, no
\* entry is left in the cache that was there when the request started (put
\* by a listTasks call that had returned) and has not been written since.
C8_MutationRemovesEarlierEntries ==
  [][\A r \in Slots :
       (reqs[r].pc \in {"clear", "clearing"} /\ reqs'[r].pc = "idle")
          => reqs[r].before \cap DOMAIN cache' = {}]_vars

\* C9: a listTasks call that starts after deleteTask(id) has returned
\* successfully returns a collection without the task id.
C9_DeletedTaskNotListed ==
  (outcome.op = "list" /\ Succeeded(outcome)) =>
    \A i \in 1..Len(outcome.result.data) :
      outcome.result.data[i].id \notin outcome.gone

\* ------------------------------------------- further claims checked on Spec
\* C11: an updateTask whose id is not stored fails with NotFound (404),
\* whatever version its draft carries (the existence check comes before the
\* version check), and leaves the stored tasks, the list cache and the
\* tracked cache keys as they were.
C11_UpdateUnknownIsNotFound ==
  [][(Called("update") /\ outcome'.id \notin DOMAIN store)
     => /\ outcome'.thrown.name = "NotFoundException"
        /\ outcome'.thrown.status = 404
        /\ store' = store
        /\ cache' = cache
        /\ listCacheKeys' = listCacheKeys]_vars

\* an update of an id that is not stored, carrying a version no stored task
\* has, was rejected with NotFound while a list result was cached
C11_Witness ==
  /\ outcome.op = "update"
  /\ outcome.id \notin DOMAIN store
  /\ outcome.thrown = NotFoundException
  /\ store # EmptyObject
  /\ \A id \in DOMAIN store : store[id].version # outcome.dto.version
  /\ cache # EmptyObject

\* the draft's fields and the entity property each of them is written to
DraftFields == {"title", "status", "priority", "dueDate", "tags"}

EntityProperty(field) == IF field = "tags" THEN "tagEntities" ELSE field

\* the value of a row's property, or nothing when the row has no such property
Stored(row, k) == IF Has(row, k) THEN <<row[k]>> ELSE <<>>

\* C12: a successful updateTask keeps the stored value of every one of title,
\* status, priority, dueDate and tags that its draft does not carry, and
\* never changes id or createdAt; so a draft that carries only the version
\* leaves all five fields as they were.
C12_UpdateKeepsAbsentFields ==
  [][(Called("update") /\ Succeeded(outcome'))
     => LET before == store[outcome'.id]
            after == store'[outcome'.id]
        IN  /\ after.id = before.id
            /\ after.createdAt = before.createdAt
            /\ \A f \in DraftFields :
                 ~Has(outcome'.dto, f)
                 => Stored(after, EntityProperty(f)) = Stored(before, EntityProperty(f))]_vars

\* a draft carrying only the version was applied to a task whose five fields
\* all differ from the defaults
C12_Witness ==
  /\ outcome.op = "update" /\ Succeeded(outcome)
  /\ DOMAIN outcome.dto = {"version"}
  /\ store[outcome.id].status = "done"
  /\ store[outcome.id].priority = 5
  /\ store[outcome.id].dueDate # NullDate
  /\ store[outcome.id].tagEntities # <<>>
  /\ store[outcome.id].version = 1

\* -------------------------- frontend: features/tasks/api/taskSchemas.ts
MaxTagLength == 30

MaxTagCount == 20

\* tagSchema: z.string().trim().min(1).max(30).refine(/\S/)
tagSchema(tag) ==
  LET value == Trim(tag)
  IN  IF /\ Len(value) >= 1
         /\ Len(value) <= MaxTagLength
         /\ \E i \in 1..Len(value) : ~IsSpace(value[i])
      THEN [success |-> TRUE, data |-> value]
      ELSE [success |-> FALSE]

\* taskSchema.tags: z.array(tagSchema).max(20).transform(Array.from(new Set))
taskSchemaTags(tags) ==
  LET parsed == [i \in 1..Len(tags) |-> tagSchema(tags[i])]
  IN  IF (\E i \in 1..Len(tags) : ~parsed[i].success) \/ Len(tags) > MaxTagCount
      THEN [success |-> FALSE]
      ELSE [success |-> TRUE,
            data |-> UniqueSeq([i \in 1..Len(tags) |-> parsed[i].data])]

\* ------------------------------------- functions applied to inputs (SpecPure)
MaxTagList == 3

SeqsUpTo(S, n) == UNION {[1..k -> S] : k \in 0..n}

\* a tag one character longer than the schema allows
LongTag == [i \in 1..(MaxTagLength + 1) |-> "x"]

TagPool == {<<"a">>, <<"a", " ">>, <<" ", "a">>, <<"b">>, <<" ">>, <<>>, <<"A">>, LongTag}

\* the lists of up to MaxTagList tags, and a list of one tag more than allowed
TagLists ==
  SeqsUpTo(TagPool, MaxTagList) \cup {[i \in 1..(MaxTagCount + 1) |-> <<"a">>]}

\* the properties createListCacheKey reads, and for each the objects that
\* lack it or have it
OptionFields == <<"status", "tag", "search", "sortBy", "sortOrder", "page", "pageSize">>

OptionChoices ==
  << {EmptyObject, [status |-> "done"]},
     {EmptyObject, [tag |-> <<>>], [tag |-> <<"\"">>]},
     {EmptyObject, [search |-> <<"\"">>]},
     {EmptyObject, [sortBy |-> "priority"]},
     {[sortOrder |-> "asc"], [sortOrder |-> "desc"]},
     {EmptyObject, [page |-> 1]},
     {EmptyObject, [pageSize |-> 1]} >>

RECURSIVE OptionsUpTo(_)
OptionsUpTo(n) ==
  IF n = 0 THEN {EmptyObject}
  ELSE {Spread(o, c) : o \in OptionsUpTo(n - 1), c \in OptionChoices[n]}

KeyOptions == OptionsUpTo(Len(OptionFields))

\* An object literal keeps its properties in insertion order: the entries
\* <<name, value>> of an object written in the given order of names.
Entries(obj, order) ==
  LET Present(k) == Has(obj, k)
      names == SelectSeq(order, Present)
  IN  [i \in 1..Len(names) |-> <<names[i], obj[names[i]]>>]

Reverse(s) == [i \in 1..Len(s) |-> s[Len(s) + 1 - i]]

\* options.name reads the property by name, wherever it was inserted
FromEntries(entries) ==
  [k \in {entries[i][1] : i \in 1..Len(entries)} |->
     entries[CHOOSE i \in 1..Len(entries) : entries[i][1] = k][2]]

PureArgs ==
  {[fn |-> "tags", tags |-> tags] : tags \in TagLists}
  \cup {[fn |-> "key", a |-> Entries(a, OptionFields),
          b |-> Entries(b, Reverse(OptionFields))] : a, b \in KeyOptions}

InitPure ==
  /\ InitService
  /\ httpResponse = NoResponse
  /\ fnArgs \in PureArgs
  /\ fnResult = NoResult
  /\ taskApi = InitTaskApi
  /\ InitHooks

\* the function is applied once to the arguments drawn
Returns(fn, value) ==
  /\ ~Has(fnResult, fn)
  /\ fnResult' = Put(fnResult, fn, value)
  /\ UNCHANGED <<serviceVars, httpResponse, fnArgs, taskApi, hookVars>>

ApplyNormalizeTags ==
  /\ fnArgs.fn = "tags"
  /\ Returns("normalizeTags", normalizeTags(fnArgs.tags))

\* normalizeTags applied to what it returned
ApplyNormalizeTagsAgain ==
  /\ Has(fnResult, "normalizeTags")
  /\ Returns("again", normalizeTags(fnResult.normalizeTags))

ParseTaskSchemaTags ==
  /\ fnArgs.fn = "tags"
  /\ Returns("taskSchema", taskSchemaTags(fnArgs.tags))

\* createListCacheKey applied to each of two option objects
ApplyCreateListCacheKey ==
  /\ fnArgs.fn = "key"
  /\ Returns("createListCacheKey",
             <<createListCacheKey(FromEntries(fnArgs.a)),
               createListCacheKey(FromEntries(fnArgs.b))>>)

NextPure ==
  \/ ApplyNormalizeTags
  \/ ApplyNormalizeTagsAgain
  \/ ParseTaskSchemaTags
  \/ ApplyCreateListCacheKey

SpecPure == InitPure /\ [][NextPure]_vars

\* the stored task passes the filters listTasks hands to the repository
Matches(task, options) ==
  /\ Has(options, "status") => task.status = options.status
  /\ Has(options, "tag")
     => \E i \in 1..Len(task.tagEntities) : task.tagEntities[i] = options.tag
  /\ Has(options, "search")
     => Includes(ToLowerCase(task.title), ToLowerCase(options.search))

\* C19: in every list response, whatever the filter, search, sort and page,
\* meta.statusCounts gives for each of todo, doing and done the number of
\* all stored tasks with that status, so the three counts sum to the number
\* of stored tasks, and meta.total is the number of stored tasks that match
\* the filters.
C19_StatusCountsAreGlobal ==
  [][(Called("list") /\ Succeeded(outcome'))
     => LET meta == outcome'.result.meta
            options == ListOptions(outcome'.dto)
        IN  /\ \A s \in {"todo", "doing", "done"} :
                 meta.statusCounts[s]
                   = Cardinality({id \in DOMAIN store : store[id].status = s})
            /\ meta.statusCounts.todo + meta.statusCounts.doing + meta.statusCounts.done
                 = Cardinality(DOMAIN store)
            /\ meta.total
                 = Cardinality({id \in DOMAIN store : Matches(store[id], options)})]_vars

\* a list filtered by status found one of two stored tasks and counted both
C19_Witness ==
  /\ outcome.op = "list" /\ Succeeded(outcome)
  /\ Has(outcome.dto, "status")
  /\ outcome.queried
  /\ outcome.result.meta.total = 1
  /\ outcome.result.meta.statusCounts = [todo |-> 1, doing |-> 0, done |-> 1]
  /\ Cardinality(DOMAIN store) = 2

\* ---------------------------------------------- claims checked on SpecPure
\* C13: normalizeTags returns the distinct non-empty trimmed values of its
\* input in the order of their first occurrence, so ["a ", " a", "b"] gives
\* ["a", "b"]; applied to its own result it returns that result; and the
\* tags the frontend taskSchema parses successfully come out the same.
C13_TagsTrimmedAndDeduplicated ==
  Has(fnResult, "normalizeTags")
  => LET tags == fnArgs.tags
         out == fnResult.normalizeTags
         First(v) == CHOOSE j \in 1..Len(tags) :
                       Trim(tags[j]) = v /\ \A h \in 1..(j - 1) : Trim(tags[h]) # v
     IN  /\ \A i \in 1..Len(out) :
              Len(out[i]) > 0 /\ \E j \in 1..Len(tags) : Trim(tags[j]) = out[i]
         /\ \A i, k \in 1..Len(out) : i # k => out[i] # out[k]
         /\ \A j \in 1..Len(tags) :
              Len(Trim(tags[j])) > 0 => \E i \in 1..Len(out) : out[i] = Trim(tags[j])
         /\ \A i, k \in 1..Len(out) : i < k => First(out[i]) < First(out[k])
         /\ tags = << <<"a", " ">>, <<" ", "a">>, <<"b">> >> => out = << <<"a">>, <<"b">> >>
         /\ Has(fnResult, "again") => fnResult.again = out
         /\ (Has(fnResult, "taskSchema") /\ fnResult.taskSchema.success)
            => fnResult.taskSchema.data = out

\* ["a ", " a", "b"] was normalized, normalized again and parsed by taskSchema
C13_Witness ==
  /\ fnArgs = [fn |-> "tags", tags |-> << <<"a", " ">>, <<" ", "a">>, <<"b">> >>]
  /\ Has(fnResult, "normalizeTags") /\ Has(fnResult, "again")
  /\ Has(fnResult, "taskSchema")
  /\ fnResult.normalizeTags = << <<"a">>, <<"b">> >>
  /\ fnResult.taskSchema.success

\* ----------------------------------------- common/guards/api-token.guard.ts
HttpUnauthorized == 401

\* configService.get('API_TOKEN')
ApiToken == <<"s">>

BearerPrefix == <<"B", "e", "a", "r", "e", "r", " ">>

StartsWith(s, prefix) == Len(s) >= Len(prefix) /\ SubSeq(s, 1, Len(prefix)) = prefix

Substring(s, from) == SubSeq(s, from + 1, Len(s))

Unauthorized(type, detail) ==
  ProblemDetailsException(
    createProblemDetails(HttpUnauthorized, "Unauthorized",
                         [type |-> type, detail |-> detail]))

\* mutation: any bearer token is let through
canActivate_AnyBearer(expectedToken, authHeader) ==
  IF authHeader = JsonUndefined \/ ~StartsWith(authHeader, BearerPrefix)
  THEN Unauthorized("https://example.com/problems/missing-token",
                    "Missing bearer token.")
  ELSE NoError

\* what canActivate throws, NoError when it returns true; a request without
\* an Authorization header has authHeader = JsonUndefined, a server without
\* API_TOKEN has expectedToken = JsonUndefined
canActivate(expectedToken, authHeader) ==
  IF expectedToken = JsonUndefined \/ Len(expectedToken) = 0
  THEN Unauthorized("https://example.com/problems/misconfigured-auth",
                    "API token is not configured on the server.")
  ELSE IF authHeader = JsonUndefined \/ ~StartsWith(authHeader, BearerPrefix)
  THEN Unauthorized("https://example.com/problems/missing-token",
                    "Missing bearer token.")
  ELSE IF Trim(Substring(authHeader, Len(BearerPrefix))) # expectedToken
  THEN Unauthorized("https://example.com/problems/invalid-token",
                    "Invalid bearer token.")
  ELSE NoError

\* ------------------------------- dto/create-task.dto.ts, update-task.dto.ts
TitleMaxLength == 120

PriorityMin == 1

PriorityMax == 5

TagsMaxSize == 20

TaskStatuses == {"todo", "doing", "done"}

\* @IsISO8601()
IsISO8601(text) == text[1] = "iso"

\* mutation: @Matches(/\S/) is missing from the title
TitleConstraints_NoMatches(body, optional) ==
  IF Has(body, "title")
  THEN IF Len(body.title) < 1 \/ Len(body.title) > TitleMaxLength
       THEN {"isLength"} ELSE {}
  ELSE IF optional THEN {}
  ELSE {"isString", "isLength"}

\* The constraints a property fails. @IsOptional() skips the validators of a
\* property that is undefined or null; title is optional in UpdateTaskDto only.
TitleConstraints(body, optional) ==
  IF Has(body, "title")
  THEN (IF Len(body.title) < 1 \/ Len(body.title) > TitleMaxLength
        THEN {"isLength"} ELSE {})
       \cup (IF \A i \in 1..Len(body.title) : IsSpace(body.title[i])
             THEN {"matches"} ELSE {})
  ELSE IF optional THEN {}
  ELSE {"isString", "isLength", "matches"}

StatusConstraints(body) ==
  IF Has(body, "status") /\ body.status \notin TaskStatuses THEN {"isEnum"} ELSE {}

PriorityConstraints(body) ==
  IF Has(body, "priority")
  THEN (IF body.priority < PriorityMin THEN {"min"} ELSE {})
       \cup (IF body.priority > PriorityMax THEN {"max"} ELSE {})
  ELSE {}

DueDateConstraints(body) ==
  IF Has(body, "dueDate") /\ body.dueDate # JsonNull /\ ~IsISO8601(body.dueDate)
  THEN {"isIso8601"} ELSE {}

TagsConstraints(body) ==
  IF Has(body, "tags") /\ Len(body.tags) > TagsMaxSize THEN {"arrayMaxSize"} ELSE {}

\* version is required: @IsInt() @Min(0) without @IsOptional()
VersionConstraints(body) ==
  IF ~Has(body, "version") THEN {"isInt", "min"}
  ELSE IF body.version < 0 THEN {"min"}
  ELSE {}

\* whitelist with forbidNonWhitelisted: a property the class does not declare
WhitelistConstraints(body, p, declared) ==
  IF p \in declared THEN {} ELSE {"whitelistValidation"}

DeclaredByCreate == {"title", "status", "priority", "dueDate", "tags"}

Properties(body) == (DOMAIN body \ {"nulls"}) \cup (IF Has(body, "nulls") THEN body.nulls ELSE {})

\* class-validator's ValidationError list: property -> failed constraints
Constraints(body, isUpdate) ==
  LET declared == IF isUpdate THEN DeclaredByCreate \cup {"version"} ELSE DeclaredByCreate
  IN  [p \in Properties(body) \cup declared |->
         IF p = "title" THEN TitleConstraints(body, isUpdate)
         ELSE IF p = "status" THEN StatusConstraints(body)
         ELSE IF p = "priority" THEN PriorityConstraints(body)
         ELSE IF p = "dueDate" THEN DueDateConstraints(body)
         ELSE IF p = "tags" THEN TagsConstraints(body)
         ELSE IF p = "version" /\ isUpdate THEN VersionConstraints(body)
         ELSE WhitelistConstraints(body, p, declared)]

\* validationErrorsToProblem: fieldErrors keeps the properties that failed
fieldErrors(errors) == [p \in {q \in DOMAIN errors : errors[q] # {}} |-> errors[p]]

validationErrorsToProblem(errors) ==
  createProblemDetails(HttpBadRequest, "Validation failed",
    [type |-> "https://example.com/problems/validation-error",
     errors |-> fieldErrors(errors)])

\* the @Transform of tags returns undefined for a null
TransformTags(body) ==
  IF IsNullProp(body, "tags") THEN [body EXCEPT !.nulls = @ \ {"tags"}] ELSE body

\* ------------------------------------------- common/filters/error.filter.ts
PROBLEM_JSON == "application/problem+json"

respond(payload, status) == [status |-> status, type |-> PROBLEM_JSON, body |-> payload]

\* exception instanceof HttpException
IsHttpException(exception) ==
  exception.name \in {"ProblemDetailsException", "NotFoundException", "BadRequestException"}

\* getResponse() of an HttpException built from a message is the object
\* HttpExceptionBody, so the createProblemDetails branch of line 35 is not taken
ErrorFilterCatch(exception) ==
  IF exception.name = "ProblemDetailsException"
  THEN respond(exception.problem, exception.status)
  ELSE IF IsHttpException(exception)
  THEN respond(exception.problem, exception.status)
  ELSE respond(createProblemDetails(HttpInternalError, "Internal Server Error",
                 [detail |-> "An unexpected error occurred.",
                  type |-> "https://example.com/problems/internal-server-error"]),
               HttpInternalError)

\* ------------------------------------- requests to TasksController (SpecHttp)
HttpOk == 200

HttpCreated == 201

HttpNoContent == 204

\* a path parameter that is not a version 4 UUID
MalformedId == 0

\* ParseUUIDPipe({ version: '4' })
BadRequestException ==
  [name |-> "BadRequestException", status |-> HttpBadRequest,
   problem |-> HttpExceptionBody(HttpBadRequest,
                 "Validation failed (uuid v 4 is expected)", "Bad Request")]

ParseUUIDPipe(id) == IF id = MalformedId THEN BadRequestException ELSE NoError

Bearer(token) == BearerPrefix \o token

\* no header, the configured token, the token after two spaces, another
\* token, another scheme
AuthHeaders ==
  { JsonUndefined, Bearer(ApiToken), Bearer(<<" ">> \o ApiToken), Bearer(<<"w">>),
    <<"B", "a", "s", "i", "c", " ">> \o ApiToken }

LongTitle == [i \in 1..(TitleMaxLength + 1) |-> "t"]

PostBodies ==
  { [title |-> <<"a">>],
    [title |-> <<" ">>, priority |-> 99, dueDate |-> <<"not-a-date">>],
    [title |-> <<>>, priority |-> 0],
    [title |-> LongTitle, tags |-> [i \in 1..(TagsMaxSize + 1) |-> <<"a">>]],
    [title |-> <<"a">>, nulls |-> {"priority"}],
    [title |-> <<" ", "b">>, status |-> "done", priority |-> 5,
     tags |-> <<LongTag, <<"x">>, <<"x", " ">> >>] }

PatchBodies ==
  { [version |-> 0],
    [title |-> <<"b">>, version |-> 0],
    [title |-> <<" ">>, priority |-> 6, version |-> 0],
    [nulls |-> {"title"}, version |-> 0],
    [tags |-> <<LongTag>>, status |-> "doing", version |-> 1] }

\* the bodies sent with every Authorization header; the others are sent
\* with the configured token only
SentUnauthorized == { [title |-> <<"a">>], [title |-> <<"b">>, version |-> 0] }

Sent(authorization, body) == authorization = Bearer(ApiToken) \/ body \in SentUnauthorized

\* queries that pass the validation of ListTasksQueryDto
HttpQueries ==
  { [page |-> 1, pageSize |-> 25],
    [status |-> "done", page |-> 1, pageSize |-> 25] }

\* the number of requests that reach a handler
MaxHttpCalls == 3

HttpRequest(method, authorization, id, body) ==
  [method |-> method, authorization |-> authorization, id |-> id, body |-> body]

Send(request, reply) ==
  httpResponse' = [request |-> request, status |-> reply.status, body |-> reply.body]

\* a guard or a pipe threw: the handler is not called
Rejected(request, exception) ==
  /\ Send(request, ErrorFilterCatch(exception))
  /\ UNCHANGED serviceVars

\* the handler returned or threw
Replied(request, status) ==
  Send(request,
       IF outcome'.thrown = NoError THEN [status |-> status, body |-> outcome'.result]
       ELSE ErrorFilterCatch(outcome'.thrown))

HttpPost(authorization, body) ==
  LET request == HttpRequest("POST", authorization, 0, body)
      denied == canActivate(ApiToken, authorization)
      errors == fieldErrors(Constraints(body, FALSE))
  IN  /\ UNCHANGED <<fnArgs, fnResult, taskApi, hookVars>>
      /\ IF denied # NoError THEN Rejected(request, denied)
         ELSE IF errors # EmptyObject
         THEN Rejected(request, ProblemDetailsException(validationErrorsToProblem(errors)))
         ELSE /\ calls < MaxHttpCalls
              /\ CreateTask(TransformTags(body))
              /\ Replied(request, HttpCreated)

HttpGet(authorization, query) ==
  /\ UNCHANGED <<fnArgs, fnResult, taskApi, hookVars>>
  /\ calls < MaxHttpCalls
  /\ ListTasks(query)
  /\ Replied(HttpRequest("GET", authorization, 0, query), HttpOk)

HttpPatch(authorization, id, body) ==
  LET request == HttpRequest("PATCH", authorization, id, body)
      denied == canActivate(ApiToken, authorization)
      errors == fieldErrors(Constraints(body, TRUE))
  IN  /\ UNCHANGED <<fnArgs, fnResult, taskApi, hookVars>>
      /\ IF denied # NoError THEN Rejected(request, denied)
         ELSE IF ParseUUIDPipe(id) # NoError THEN Rejected(request, ParseUUIDPipe(id))
         ELSE IF errors # EmptyObject
         THEN Rejected(request, ProblemDetailsException(validationErrorsToProblem(errors)))
         ELSE /\ calls < MaxHttpCalls
              /\ UpdateTask(id, TransformTags(body))
              /\ Replied(request, HttpOk)

HttpDelete(authorization, id) ==
  LET request == HttpRequest("DELETE", authorization, id, EmptyObject)
      denied == canActivate(ApiToken, authorization)
  IN  /\ UNCHANGED <<fnArgs, fnResult, taskApi, hookVars>>
      /\ IF denied # NoError THEN Rejected(request, denied)
         ELSE IF ParseUUIDPipe(id) # NoError THEN Rejected(request, ParseUUIDPipe(id))
         ELSE /\ calls < MaxHttpCalls
              /\ DeleteTask(id)
              /\ Replied(request, HttpNoContent)

NextHttp ==
  \/ \E a \in AuthHeaders, body \in PostBodies : Sent(a, body) /\ HttpPost(a, body)
  \/ \E a \in {JsonUndefined, Bearer(ApiToken)}, query \in HttpQueries : HttpGet(a, query)
  \/ \E a \in AuthHeaders, id \in Ids \cup {MalformedId}, body \in PatchBodies :
       Sent(a, body) /\ HttpPatch(a, id, body)
  \/ \E a \in AuthHeaders, id \in Ids \cup {MalformedId} : HttpDelete(a, id)
  \/ \E key \in DOMAIN cache : Expire(key) /\ UNCHANGED outsideService

SpecHttp == Init /\ [][NextHttp]_vars

\* C17: two option objects yield the same key exactly when they have equal
\* values for status, tag, search, sortBy, sortOrder, page and pageSize, an
\* absent property counting as null, in whatever order their properties were
\* inserted.
C17_KeyIdentifiesOptions ==
  Has(fnResult, "createListCacheKey")
  => LET a == FromEntries(fnArgs.a)
         b == FromEntries(fnArgs.b)
         Value(obj, k) == IF Has(obj, k) THEN <<obj[k]>> ELSE <<>>
         SameValues == \A i \in 1..Len(OptionFields) :
                         Value(a, OptionFields[i]) = Value(b, OptionFields[i])
     IN  SameValues <=> fnResult.createListCacheKey[1] = fnResult.createListCacheKey[2]

\* two objects with the same five properties, inserted in opposite orders,
\* one of them a search text holding a quote, got the same key
C17_Witness ==
  /\ fnArgs.fn = "key"
  /\ Len(fnArgs.a) = 5
  /\ fnArgs.b = Reverse(fnArgs.a)
  /\ \E i \in 1..Len(fnArgs.a) : fnArgs.a[i] = <<"search", <<"\"">> >>
  /\ Has(fnResult, "createListCacheKey")
  /\ fnResult.createListCacheKey[1] = fnResult.createListCacheKey[2]

\* ---------------------------------------------- claims checked on SpecHttp
\* the step is the handling of a request with this method
Requested(method) ==
  /\ httpResponse'.request.method = method
  /\ (httpResponse' # httpResponse \/ calls' # calls)

\* C14: after any sequence of requests that passed validation, the tags of
\* every stored task are pairwise distinct, at most 20 in number, and each
\* is non-empty and at most 30 characters long.
C14_StoredTagsBounded ==
  \A id \in DOMAIN store :
    LET tags == store[id].tagEntities
    IN  /\ \A i, k \in 1..Len(tags) : i # k => tags[i] # tags[k]
        /\ Len(tags) <= 20
        /\ \A i \in 1..Len(tags) : Len(tags[i]) >= 1 /\ Len(tags[i]) <= 30

\* a draft with an empty or whitespace-only title
BlankTitle(body) ==
  Has(body, "title") /\ \A i \in 1..Len(body.title) : IsSpace(body.title[i])

\* a draft with a priority outside 1..5
PriorityOutOfRange(body) == Has(body, "priority") /\ body.priority \notin 1..5

\* the request carries the configured token and, where its route has an id
\* parameter, a well-formed id
Admitted(request) ==
  /\ canActivate(ApiToken, request.authorization) = NoError
  /\ request.method = "POST" \/ request.id # MalformedId

\* C15: an authorized create or update whose title is empty or
\* whitespace-only, or whose priority is outside 1..5, is answered 400 with
\* the validation-error problem naming the property, without the service
\* being called and with nothing stored; and every stored task has a title
\* that is non-empty after trimming and a priority in 1..5.
C15_MalformedDraftRejected ==
  /\ [](\A id \in DOMAIN store :
          /\ Len(Trim(store[id].title)) > 0
          /\ store[id].priority \in 1..5)
  /\ [][LET request == httpResponse'.request
        IN  ((Requested("POST") \/ Requested("PATCH"))
               /\ Admitted(request)
               /\ (BlankTitle(request.body) \/ PriorityOutOfRange(request.body)))
            => /\ httpResponse'.status = 400
               /\ httpResponse'.body.status = 400
               /\ httpResponse'.body.type = "https://example.com/problems/validation-error"
               /\ BlankTitle(request.body) => Has(httpResponse'.body.errors, "title")
               /\ PriorityOutOfRange(request.body)
                  => Has(httpResponse'.body.errors, "priority")
               /\ UNCHANGED serviceVars]_vars

\* an update with a whitespace-only title and priority 6 was rejected for a
\* stored task, after a create with a null priority had stored nothing
C15_Witness ==
  /\ httpResponse.request.method = "PATCH"
  /\ httpResponse.request.id \in DOMAIN store
  /\ BlankTitle(httpResponse.request.body)
  /\ PriorityOutOfRange(httpResponse.request.body)
  /\ httpResponse.status = 400
  /\ DOMAIN httpResponse.body.errors = {"title", "priority"}
  /\ outcome.thrown = QueryFailedError

\* the Authorization header is the Bearer scheme followed by the configured token
CarriesApiToken(authorization) ==
  \E pad \in {<<>>, <<" ">>} : authorization = BearerPrefix \o pad \o ApiToken

\* C16: every POST, PATCH or DELETE whose Authorization header does not
\* carry the configured token as a bearer token is answered 401 with an
\* Unauthorized problem, without the service being called and with the
\* stored tasks and the list cache unchanged; every GET is served (200),
\* whatever its Authorization header.
C16_OnlyMutationsNeedToken ==
  [][LET request == httpResponse'.request
     IN  /\ ((Requested("POST") \/ Requested("PATCH") \/ Requested("DELETE"))
               /\ ~CarriesApiToken(request.authorization))
            => /\ httpResponse'.status = 401
               /\ httpResponse'.body.status = 401
               /\ httpResponse'.body.title = "Unauthorized"
               /\ calls' = calls
               /\ store' = store
               /\ cache' = cache
               /\ listCacheKeys' = listCacheKeys
         /\ Requested("GET")
            => /\ httpResponse'.status = 200
               /\ calls' = calls + 1]_vars

\* a DELETE of a stored task with another token was rejected while a list
\* result, served to a GET without a token, was cached
C16_Witness ==
  /\ httpResponse.request.method = "DELETE"
  /\ httpResponse.request.authorization = Bearer(<<"w">>)
  /\ httpResponse.request.id \in DOMAIN store
  /\ httpResponse.status = 401
  /\ httpResponse.body.type = "https://example.com/problems/invalid-token"
  /\ cache # EmptyObject
  /\ outcome.op = "list"

\* C18: every request that ends in an error (401, 400, 404, 409 or an
\* unexpected exception) is answered with a body that is a problem-details
\* object: it has a type, a title and a status equal to the HTTP status; and
\* an unexpected exception is answered 500 with the fixed detail text.
C18_ErrorsAreProblemDetails ==
  httpResponse.status >= 400
  => /\ {"type", "title", "status"} \subseteq DOMAIN httpResponse.body
     /\ httpResponse.body.status = httpResponse.status
     /\ httpResponse.status = 500
        => httpResponse.body.detail = "An unexpected error occurred."

\* ---------------------------------------------------------------------
\* Frontend: taskApi (listTasks and its taskListCache)
\* ---------------------------------------------------------------------
CACHE_TTL_MS == 30000

DefaultPage == 1

DefaultPageSize == 25

\* the model's clock advances by CACHE_TTL_MS \div TicksPerTtl, at most
\* MaxTicks times; taskApi is called at most MaxApiCalls times
TicksPerTtl == 3

MaxTicks == 3

MaxApiCalls == 3

TickMs == CACHE_TTL_MS \div TicksPerTtl

\* optionalFilterString: a string is trimmed, and dropped when blank
optionalFilterString(params, k) ==
  IF Has(params, k) /\ Len(Trim(params[k])) > 0
    THEN Put(EmptyObject, k, Trim(params[k]))
    ELSE EmptyObject

\* listTasksParamsSchema.parse, on parameters the schema accepts
normalizeListParams(params) ==
  LET given == [k \in DOMAIN params \cap {"status", "sortBy"} |-> params[k]]
      filters == Spread(optionalFilterString(params, "tag"),
                        optionalFilterString(params, "search"))
      defaults ==
        [sortOrder |-> IF Has(params, "sortOrder") THEN params.sortOrder ELSE "asc",
         page |-> IF Has(params, "page") THEN params.page ELSE DefaultPage,
         pageSize |-> IF Has(params, "pageSize") THEN params.pageSize
                      ELSE DefaultPageSize]
  IN Spread(Spread(given, filters), defaults)

RECURSIVE JoinMembers(_, _)
JoinMembers(obj, fields) ==
  IF fields = <<>> THEN <<>>
  ELSE IF Len(fields) = 1 THEN JsonMember(obj, Head(fields))
  ELSE JsonMember(obj, Head(fields)) \o <<",">> \o JoinMembers(obj, Tail(fields))

\* JSON.stringify(params): the defined properties, in the schema's order
buildListCacheKey(params) ==
  <<"{">>
  \o JoinMembers(params, SelectSeq(OptionFields, LAMBDA k : Has(params, k)))
  \o <<"}">>

\* what GET /tasks answers: the server's collection changes under the
\* frontend (this client's mutations, other clients)
ServerTask ==
  [id |-> 1, title |-> <<"a">>, status |-> "todo", priority |-> 3,
   dueDate |-> JsonNull, tags |-> <<>>, version |-> 0]

ServerCollections == <<(<<>>), (<<ServerTask>>)>>

TaskListResponse(server, normalized) ==
  [tasks |-> ServerCollections[server + 1],
   total |-> Len(ServerCollections[server + 1]),
   page |-> normalized.page,
   pageSize |-> normalized.pageSize,
   statusCounts |-> [todo |-> Len(ServerCollections[server + 1]),
                     in_progress |-> 0, done |-> 0]]

cloneTask(task) ==
  Spread(task,
         [tags |-> [i \in 1..Len(task.tags) |-> task.tags[i]],
          dueDate |-> IF task.dueDate # JsonNull THEN task.dueDate ELSE JsonNull])

cloneTaskListResponse(value) ==
  [tasks |-> [i \in 1..Len(value.tasks) |-> cloneTask(value.tasks[i])],
   total |-> value.total, page |-> value.page, pageSize |-> value.pageSize,
   statusCounts |-> [s \in DOMAIN value.statusCounts |-> value.statusCounts[s]]]

\* getCachedTaskList: an entry at or past its expiresAt is deleted and
\* not returned
Cached(api, key) == Has(api.cache, key) /\ ~(api.cache[key].expiresAt <= api.now)

CacheAfterGet(api, key) ==
  IF Has(api.cache, key) /\ api.cache[key].expiresAt <= api.now
    THEN [k \in DOMAIN api.cache \ {key} |-> api.cache[k]]
    ELSE api.cache

getCachedTaskList(api, key) ==
  IF Cached(api, key) THEN cloneTaskListResponse(api.cache[key].data) ELSE JsonNull

\* mutation: the entry expires the moment it is stored
setCachedTaskList_NoTtl(api, key, value) ==
  Put(api.cache, key, [data |-> cloneTaskListResponse(value), expiresAt |-> api.now])

setCachedTaskList(api, key, value) ==
  Put(api.cache, key,
      [data |-> cloneTaskListResponse(value), expiresAt |-> api.now + CACHE_TTL_MS])

ApiParams ==
  { EmptyObject,
    [search |-> <<" ">>, page |-> DefaultPage],
    [status |-> "done", tag |-> <<"x", " ">>] }

FreeFetches == {r \in 1..MaxApiInFlight : taskApi.pending[r] = NoFetch}

\* listTasks up to its await: a valid cached entry is returned without a
\* request; otherwise the request is sent
ApiListTasks(params) ==
  LET normalized == normalizeListParams(params)
      cacheKey == buildListCacheKey(normalized)
      cached == getCachedTaskList(taskApi, cacheKey)
      n == taskApi.calls + 1
  IN /\ n <= MaxApiCalls
     /\ IF Cached(taskApi, cacheKey)
          THEN taskApi' =
                 [taskApi EXCEPT
                    !.calls = n,
                    !.op = "listTasks",
                    !.started = [params |-> params, key |-> cacheKey,
                                 sent |-> FALSE, after |-> taskApi.op],
                    !.returned = [key |-> cacheKey, data |-> cached],
                    !.last = Put(@, cacheKey, [at |-> taskApi.now, data |-> cached])]
          ELSE \E r \in FreeFetches :
                 taskApi' =
                   [taskApi EXCEPT
                      !.calls = n,
                      !.op = "listTasks",
                      !.cache = CacheAfterGet(taskApi, cacheKey),
                      !.fetches = @ + 1,
                      !.pending[r] = [key |-> cacheKey, normalized |-> normalized],
                      !.started = [params |-> params, key |-> cacheKey,
                                   sent |-> TRUE, after |-> taskApi.op]]
     /\ UNCHANGED <<serviceVars, httpResponse, fnArgs, fnResult, hookVars>>

\* the server answers GET /tasks from its collection of that moment
ApiServerAnswers(r) ==
  LET fetch == taskApi.pending[r]
  IN /\ fetch # NoFetch
     /\ ~Has(fetch, "answer")
     /\ taskApi' =
          [taskApi EXCEPT
             !.pending[r] =
               Spread(fetch, [answer |-> TaskListResponse(taskApi.server,
                                                          fetch.normalized),
                              old |-> FALSE])]
     /\ UNCHANGED <<serviceVars, httpResponse, fnArgs, fnResult, hookVars>>

\* listTasks after its await: the response is cached and returned
ApiListResponse(r) ==
  LET fetch == taskApi.pending[r]
      result == fetch.answer
  IN /\ fetch # NoFetch
     /\ Has(fetch, "answer")
     /\ taskApi' =
          [taskApi EXCEPT
             !.pending[r] = NoFetch,
             !.cache = setCachedTaskList(taskApi, fetch.key, result),
             !.returned = [key |-> fetch.key, data |-> result],
             !.last = Put(@, fetch.key, [at |-> taskApi.now, data |-> result]),
             !.fetched = Put(@, fetch.key, [at |-> taskApi.now, data |-> result,
                                               old |-> fetch.old])]
     /\ UNCHANGED <<serviceVars, httpResponse, fnArgs, fnResult, hookVars>>

\* request rejects (TaskApiError): nothing is cached, the call rejects
ApiListFails(r) ==
  /\ taskApi.pending[r] # NoFetch
  /\ taskApi' = [taskApi EXCEPT !.pending[r] = NoFetch]
  /\ UNCHANGED <<serviceVars, httpResponse, fnArgs, fnResult, hookVars>>

clearTaskListCache == EmptyObject

\* an answer the server gave before a mutation resolved is old
Outdated(fetch) == IF Has(fetch, "answer") THEN Spread(fetch, [old |-> TRUE]) ELSE fetch

\* taskDraftSchema.parse succeeds (title, priority and tags of the draft)
taskDraftSchema(draft) ==
  /\ Len(Trim(draft.title)) >= 1
  /\ Len(Trim(draft.title)) <= TitleMaxLength
  /\ draft.priority >= PriorityMin
  /\ draft.priority <= PriorityMax
  /\ taskSchemaTags(draft.tags).success

ensureAuthToken(token) ==
  IF Len(Trim(token)) = 0 THEN "configuration" ELSE "none"

\* mutation: a non-ok response clears the cache as well
MutationOutcome_ClearsOnProblem(op, token, draft, status) ==
  IF op # "deleteTask" /\ ~taskDraftSchema(draft)
    THEN [error |-> "ZodError", requested |-> FALSE, cleared |-> FALSE]
  ELSE IF ensureAuthToken(token) # "none"
    THEN [error |-> ensureAuthToken(token), requested |-> FALSE, cleared |-> FALSE]
  ELSE IF ~(status >= HttpOk /\ status < HttpOk + 100)
    THEN [error |-> "problem", requested |-> TRUE, cleared |-> TRUE]
  ELSE [error |-> "none", requested |-> TRUE, cleared |-> TRUE]

\* how createTask, updateTask or deleteTask ends: the error it rejects
\* with, whether its HTTP request was sent, whether the cache was cleared
MutationOutcome(op, token, draft, status) ==
  IF op # "deleteTask" /\ ~taskDraftSchema(draft)
    THEN [error |-> "ZodError", requested |-> FALSE, cleared |-> FALSE]
  ELSE IF ensureAuthToken(token) # "none"
    THEN [error |-> ensureAuthToken(token), requested |-> FALSE, cleared |-> FALSE]
  ELSE IF ~(status >= HttpOk /\ status < HttpOk + 100)
    THEN [error |-> "problem", requested |-> TRUE, cleared |-> FALSE]
  ELSE [error |-> "none", requested |-> TRUE, cleared |-> TRUE]

ViteApiTokens == {<<>>, <<"s">>}

ApiDrafts ==
  { [title |-> <<"a">>, priority |-> PriorityMax, tags |-> <<>>],
    [title |-> <<" ">>, priority |-> PriorityMin, tags |-> <<>>] }

ApiOps == {"createTask", "updateTask", "deleteTask"}

\* createTask, updateTask, deleteTask, from the call to its settling
ApiMutation(op, draft, status) ==
  LET ended == MutationOutcome(op, taskApi.token, draft, status)
  IN /\ taskApi.calls < MaxApiCalls
     /\ taskApi' =
          IF ended.cleared
            THEN [taskApi EXCEPT !.calls = @ + 1,
                                 !.op = op,
                                 !.cache = clearTaskListCache,
                                 !.pending = [r \in DOMAIN @ |-> Outdated(@[r])],
                                 !.mutation = ended,
                                 !.last = EmptyObject,
                                 !.fetched = EmptyObject]
            ELSE [taskApi EXCEPT !.calls = @ + 1, !.op = op, !.mutation = ended]
     /\ UNCHANGED <<serviceVars, httpResponse, fnArgs, fnResult, hookVars>>

ServerChanges(server) ==
  /\ server # taskApi.server
  /\ taskApi' = [taskApi EXCEPT !.server = server]
  /\ UNCHANGED <<serviceVars, httpResponse, fnArgs, fnResult, hookVars>>

ApiTick ==
  /\ taskApi.ticks < MaxTicks
  /\ taskApi' = [taskApi EXCEPT !.ticks = @ + 1, !.now = @ + TickMs]
  /\ UNCHANGED <<serviceVars, httpResponse, fnArgs, fnResult, hookVars>>

NextApi ==
  \/ \E params \in ApiParams : ApiListTasks(params)
  \/ \E r \in 1..MaxApiInFlight : ApiServerAnswers(r)
  \/ \E r \in 1..MaxApiInFlight : ApiListResponse(r)
  \/ \E r \in 1..MaxApiInFlight : ApiListFails(r)
  \/ \E op \in ApiOps, draft \in ApiDrafts, status \in {HttpOk, HttpConflict} :
       ApiMutation(op, draft, status)
  \/ \E server \in 0..(Len(ServerCollections) - 1) : ServerChanges(server)
  \/ ApiTick

InitApi ==
  /\ InitService
  /\ httpResponse = NoResponse
  /\ fnArgs = NoCall
  /\ fnResult = NoResult
  /\ \E token \in ViteApiTokens : taskApi = [InitTaskApi EXCEPT !.token = token]
  /\ InitHooks

SpecApi == InitApi /\ [][NextApi]_vars

\* ---------------------------------------------------------------------
\* Claims checked on SpecApi
\* ---------------------------------------------------------------------
ListStarted == taskApi'.calls = taskApi.calls + 1 /\ taskApi'.op = "listTasks"

Elapsed(since) == taskApi.now - since.at

\* C20 as stated: after a listTasks call has resolved, a later call whose
\* parameters normalize to the same value, made less than 30 seconds
\* later with no mutation in between, sends no request and returns data
\* equal to that call's response
C20_AsStated ==
  [][ListStarted =>
       LET key == taskApi'.started.key
       IN (Has(taskApi.last, key) /\ Elapsed(taskApi.last[key]) < CACHE_TTL_MS)
            => /\ ~taskApi'.started.sent
               /\ taskApi'.returned.data = taskApi.last[key].data]_vars

\* C20: once a fetched response has been cached, a listTasks call whose
\* parameters normalize to the same value, made less than 30 seconds
\* after the latest such response was received with no mutation
\* completing in between, sends no request and returns data equal to
\* that response; and a call served from the cache is always served from
\* an entry whose 30 seconds have not elapsed
C20_CachedWithinTtl ==
  [][ListStarted =>
       LET key == taskApi'.started.key
       IN /\ (Has(taskApi.fetched, key)
                /\ Elapsed(taskApi.fetched[key]) < CACHE_TTL_MS)
               => /\ ~taskApi'.started.sent
                  /\ taskApi'.fetches = taskApi.fetches
                  /\ taskApi'.returned.data = taskApi.fetched[key].data
          /\ ~taskApi'.started.sent
               => /\ Has(taskApi.fetched, key)
                  /\ Elapsed(taskApi.fetched[key]) < CACHE_TTL_MS]_vars

\* a call with a blank search and the default page was served from the
\* cache one tick before the entry's expiry, after a single request,
\* although the server's collection has changed since
C20_Witness ==
  /\ Has(taskApi.started, "sent") /\ ~taskApi.started.sent
  /\ taskApi.started.params = [search |-> <<" ">>, page |-> DefaultPage]
  /\ Has(taskApi.fetched, taskApi.started.key)
  /\ Elapsed(taskApi.fetched[taskApi.started.key]) = CACHE_TTL_MS - TickMs
  /\ taskApi.returned.data = taskApi.fetched[taskApi.started.key].data
  /\ taskApi.returned.data # TaskListResponse(taskApi.server, normalizeListParams(EmptyObject))
  /\ taskApi.fetches = 1

\* C21: a listTasks call is never served, from the cache, a response the
\* server gave before a mutation that has since resolved
C21_NoReadOfDataFromBeforeMutation ==
  [][(ListStarted /\ ~taskApi'.started.sent)
       => ~taskApi.fetched[taskApi'.started.key].old]_vars

MutationSettled == taskApi'.calls = taskApi.calls + 1 /\ taskApi'.op # "listTasks"

\* C29: a mutation that rejects leaves taskListCache as it was, and one
\* that rejects for a missing token or an invalid draft has sent no
\* request
C29_FailedMutationKeepsCache ==
  [][(MutationSettled /\ taskApi'.mutation.error # "none")
       => /\ taskApi'.cache = taskApi.cache
          /\ taskApi'.mutation.error \in {"configuration", "ZodError"}
               => ~taskApi'.mutation.requested]_vars

\* a list call that started after a mutation was rejected with a non-ok
\* response was served from the entry cached before that mutation
C29_Witness ==
  /\ Has(taskApi.started, "sent") /\ ~taskApi.started.sent
  /\ taskApi.started.after = "updateTask"
  /\ taskApi.mutation.error = "problem"
  /\ taskApi.fetches = 1

\* ---------------------------------------------------------------------
\* Frontend: useTaskMutations (optimistic edits of the query cache)
\* ---------------------------------------------------------------------
MaxIssued == 3

Filter(seq, Keep(_)) == SelectSeq(seq, Keep)

updateTaskInResponse(response, taskId, updater(_)) ==
  [response EXCEPT
     !.tasks = [i \in 1..Len(@) |-> IF @[i].id = taskId THEN updater(@[i]) ELSE @[i]]]

removeTaskFromResponse(response, taskId) ==
  [response EXCEPT
     !.total = IF @ - 1 > 0 THEN @ - 1 ELSE 0,
     !.tasks = Filter(@, LAMBDA task : task.id # taskId)]

\* mutation: a full page takes the created task as well
addTaskToResponse_IgnoresFull(response, task) ==
  IF response.page # 1 THEN response
  ELSE [response EXCEPT !.total = @ + 1, !.tasks = <<task>> \o @]

addTaskToResponse(response, task) ==
  IF response.page # 1 THEN response
  ELSE IF Len(response.tasks) >= response.pageSize THEN response
  ELSE [response EXCEPT !.total = @ + 1, !.tasks = <<task>> \o @]

\* applyToTaskQueries: every ['tasks', ...] query that has data
applyToTaskQueries(queries, apply(_)) == [key \in DOMAIN queries |-> apply(queries[key])]

\* setQueryData for every snapshot taken in onMutate
RestoreSnapshots(queries, snapshots) == Spread(queries, snapshots)

OptimisticTask(task, draft, version) ==
  [task EXCEPT !.title = draft.title, !.version = version + 1]

\* the cached pages the hooks start from: a full first page, a filtered
\* first page with room, and a second page
CachedTask(id) == [id |-> id, title |-> <<"a">>, version |-> 0]

Page(page, pageSize, tasks, total) ==
  [tasks |-> tasks, total |-> total, page |-> page, pageSize |-> pageSize]

QueryCaches ==
  { [all |-> Page(1, 2, <<CachedTask(1), CachedTask(2)>>, 3),
     next |-> Page(2, 2, <<CachedTask(3)>>, 3)],
    [all |-> Page(1, 2, <<CachedTask(1), CachedTask(2)>>, 2),
     done |-> Page(1, 2, <<CachedTask(2)>>, 1)],
    [done |-> Page(1, 1, <<>>, 0)] }

TaskIds == 1..3

QueryDrafts == { [title |-> <<"b">>] }

FreeMutations == {m \in 1..MaxMutations : queryClient.mutations[m] = NoMutation}

\* updateTaskMutation.onMutate
MutateUpdate(m, taskId, draft, version) ==
  /\ m \in FreeMutations
  /\ queryClient.issued < MaxIssued
  /\ queryClient' =
       [queryClient EXCEPT
          !.issued = @ + 1,
          !.queries =
            applyToTaskQueries(@, LAMBDA data :
              updateTaskInResponse(data, taskId,
                                   LAMBDA task : OptimisticTask(task, draft, version))),
          !.mutations[m] = [op |-> "update", taskId |-> taskId, draft |-> draft,
                            version |-> version, snapshots |-> queryClient.queries]]

\* deleteTaskMutation.onMutate
MutateDelete(m, taskId) ==
  /\ m \in FreeMutations
  /\ queryClient.issued < MaxIssued
  /\ queryClient' =
       [queryClient EXCEPT
          !.issued = @ + 1,
          !.queries =
            applyToTaskQueries(@, LAMBDA data : removeTaskFromResponse(data, taskId)),
          !.mutations[m] = [op |-> "delete", taskId |-> taskId,
                            snapshots |-> queryClient.queries]]

\* createTaskMutation has no onMutate
MutateCreate(m, draft) ==
  /\ m \in FreeMutations
  /\ queryClient.issued < MaxIssued
  /\ queryClient' =
       [queryClient EXCEPT
          !.issued = @ + 1,
          !.mutations[m] = [op |-> "create", draft |-> draft,
                            taskId |-> Cardinality(TaskIds) + queryClient.issued + 1]]

Settled(m, failed) ==
  Spread(queryClient.mutations[m], [failed |-> failed])

\* onError: the snapshots of onMutate are written back
MutationFails(m) ==
  LET mutation == queryClient.mutations[m]
  IN /\ mutation # NoMutation
     /\ queryClient' =
          [queryClient EXCEPT
             !.queries = IF Has(mutation, "snapshots")
                           THEN RestoreSnapshots(@, mutation.snapshots)
                           ELSE @,
             !.mutations[m] = NoMutation,
             !.settled = Settled(m, TRUE)]

\* onSuccess: the task the server returned is written into the pages
MutationSucceeds(m) ==
  LET mutation == queryClient.mutations[m]
      task == IF mutation.op = "create"
                THEN [id |-> mutation.taskId, title |-> mutation.draft.title,
                      version |-> 0]
                ELSE [id |-> mutation.taskId, title |-> mutation.draft.title,
                      version |-> mutation.version + 1]
  IN /\ mutation # NoMutation
     /\ queryClient' =
          [queryClient EXCEPT
             !.queries =
               IF mutation.op = "create"
                 THEN applyToTaskQueries(@, LAMBDA data : addTaskToResponse(data, task))
               ELSE IF mutation.op = "update"
                 THEN applyToTaskQueries(@, LAMBDA data :
                        updateTaskInResponse(data, task.id, LAMBDA row : task))
               ELSE @,
             !.mutations[m] = NoMutation,
             !.settled = Settled(m, FALSE)]

outsideHooks ==
  <<serviceVars, httpResponse, fnArgs, fnResult, taskApi, users, taskForm,
    toastProvider>>

NextQuery ==
  \/ \E m \in 1..MaxMutations, taskId \in TaskIds, draft \in QueryDrafts :
       MutateUpdate(m, taskId, draft, 0) /\ UNCHANGED outsideHooks
  \/ \E m \in 1..MaxMutations, taskId \in TaskIds :
       MutateDelete(m, taskId) /\ UNCHANGED outsideHooks
  \/ \E m \in 1..MaxMutations, draft \in QueryDrafts :
       MutateCreate(m, draft) /\ UNCHANGED outsideHooks
  \/ \E m \in 1..MaxMutations : MutationFails(m) /\ UNCHANGED outsideHooks
  \/ \E m \in 1..MaxMutations : MutationSucceeds(m) /\ UNCHANGED outsideHooks

InitQuery ==
  /\ InitService
  /\ httpResponse = NoResponse
  /\ fnArgs = NoCall
  /\ fnResult = NoResult
  /\ taskApi = InitTaskApi
  /\ \E queries \in QueryCaches :
       queryClient = [InitQueryClient EXCEPT !.queries = queries]
  /\ users = InitUsers
  /\ taskForm = InitTaskForm
  /\ toastProvider = InitToastProvider

SpecQuery == InitQuery /\ [][NextQuery]_vars

\* ---------------------------------------------------------------------
\* Claims checked on SpecQuery
\* ---------------------------------------------------------------------
Failed(m) ==
  /\ queryClient.mutations[m] # NoMutation
  /\ queryClient'.mutations[m] = NoMutation
  /\ queryClient'.settled.failed
  /\ queryClient.mutations[m].op \in {"update", "delete"}

OtherRows(data, taskId) == SelectSeq(data.tasks, LAMBDA task : task.id # taskId)

\* C22: when an update or delete mutation fails, the rows of every other
\* task stay in each cached page as they were just before the failure,
\* so that what other mutations changed is kept
C22_RollbackKeepsOtherChanges ==
  [][\A m \in 1..MaxMutations :
       Failed(m) =>
         \A key \in DOMAIN queryClient.queries :
           OtherRows(queryClient'.queries[key], queryClient.mutations[m].taskId)
             = OtherRows(queryClient.queries[key], queryClient.mutations[m].taskId)]_vars

Created(m) ==
  /\ queryClient.mutations[m] # NoMutation
  /\ queryClient'.mutations[m] = NoMutation
  /\ ~queryClient'.settled.failed
  /\ queryClient.mutations[m].op = "create"

WithinPage(data) == Len(data.tasks) <= data.pageSize /\ data.total >= 0

\* C30: every cached page keeps tasks.length <= pageSize and total >= 0
\* under the optimistic edits; a created task is put at the front, with
\* total incremented by 1, of exactly the pages with page = 1 that are
\* not full, and every other page is returned unchanged
C30_EditsKeepPagesWithinPageSize ==
  /\ [](\A key \in DOMAIN queryClient.queries : WithinPage(queryClient.queries[key]))
  /\ [][\A m \in 1..MaxMutations :
          Created(m) =>
            \A key \in DOMAIN queryClient.queries :
              LET before == queryClient.queries[key]
                  after == queryClient'.queries[key]
              IN IF before.page = 1 /\ Len(before.tasks) < before.pageSize
                   THEN /\ Len(after.tasks) = Len(before.tasks) + 1
                        /\ Head(after.tasks).id = queryClient.mutations[m].taskId
                        /\ Tail(after.tasks) = before.tasks
                        /\ after.total = before.total + 1
                   ELSE after = before]_vars

\* a created task was put at the front of a first page that had room
\* after a delete, while the second page stayed as it was
C30_Witness ==
  /\ Has(queryClient.settled, "op") /\ queryClient.settled.op = "create"
  /\ ~queryClient.settled.failed
  /\ Has(queryClient.queries, "next")
  /\ queryClient.queries.next.tasks = <<CachedTask(3)>>
  /\ Len(queryClient.queries.all.tasks) = 2
  /\ Head(queryClient.queries.all.tasks).id = queryClient.settled.taskId

\* ---------------------------------------------------------------------
\* q2: getUser and its cache
\* ---------------------------------------------------------------------
MaxUserCalls == 3

\* JSON values as res.json() yields them, with the type typeof reports
JStr(s) == [type |-> "string", value |-> s]

JNum == [type |-> "number"]

JNull == [type |-> "null"]

JObject(props) == [type |-> "object", props |-> props]

\* mutation: any string is taken for a role
isUser_AnyRole(x) ==
  /\ x.type = "object"
  /\ LET o == x.props
         hasStr(k) == Has(o, k) /\ o[k].type = "string"
         hasOptStr(k) == ~Has(o, k) \/ o[k].type = "string"
     IN hasStr("id") /\ hasStr("email") /\ hasStr("role") /\ hasOptStr("name")

isUser(x) ==
  /\ x.type = "object"
  /\ LET o == x.props
         hasStr(k) == Has(o, k) /\ o[k].type = "string"
         hasOptStr(k) == ~Has(o, k) \/ o[k].type = "string"
         roleOk == hasStr("role") /\ o.role.value \in {"admin", "member"}
     IN hasStr("id") /\ hasStr("email") /\ roleOk /\ hasOptStr("name")

\* the user built from a validated payload: name only when it is truthy
UserOf(data) ==
  LET o == data.props
      named == IF Has(o, "name") /\ o.name.value # <<>>
                 THEN [name |-> o.name.value] ELSE EmptyObject
  IN Spread([id |-> o.id.value, email |-> o.email.value, role |-> o.role.value],
            named)

\* property names every object literal inherits from Object.prototype
InheritedKeys == {<<"constructor">>}

\* cache[id] is truthy
CacheHit(id) == Has(users.cache, id) \/ id \in InheritedKeys

\* mutation: the copy leaves the name out
SpreadOfHit_WithoutName(id) ==
  IF Has(users.cache, id)
    THEN [k \in DOMAIN users.heap[users.cache[id]].props \ {"name"} |->
            users.heap[users.cache[id]].props[k]]
    ELSE EmptyObject

\* { ...hit }: the own enumerable properties of what cache[id] yields
SpreadOfHit(id) ==
  IF Has(users.cache, id) THEN users.heap[users.cache[id]].props ELSE EmptyObject

UserIds == {<<"u">>, <<"v">>} \cup InheritedKeys

UserPayloads(id) ==
  { JObject([id |-> JStr(id), email |-> JStr(<<"e">>), role |-> JStr("admin"),
             name |-> JStr(<<"n">>)]),
    JObject([id |-> JStr(id), email |-> JStr(<<"e">>), role |-> JStr("member")]),
    JObject([id |-> JStr(id), email |-> JStr(<<"e">>), role |-> JStr("member"),
             name |-> JStr(<<>>)]),
    JObject([id |-> JStr(id), email |-> JStr(<<"e">>), role |-> JStr("root")]),
    JObject([id |-> JStr(id), email |-> JStr(<<"e">>), role |-> JStr("admin"),
             name |-> JNull]),
    JObject([id |-> JNum, email |-> JNum, role |-> JStr("root")]),
    JObject([id |-> JStr(id), role |-> JStr("admin")]),
    JNull }

\* the responses fetch resolves with: ok with any payload, or not ok
UserResponses(id) ==
  {[ok |-> TRUE, data |-> data] : data \in UserPayloads(id)}
    \cup {[ok |-> FALSE, data |-> JNull],
          [ok |-> FALSE,
           data |-> JObject([id |-> JStr(id), email |-> JStr(<<"e">>),
                             role |-> JStr("member")])]}

FreeUserFetches == {r \in 1..MaxUserFetches : users.pending[r] = NoUserFetch}

NewObject(props, frozen) == [props |-> props, frozen |-> frozen]

\* getUser up to its first await: a hit returns a copy, a miss fetches
GetUser(id) ==
  LET n == users.calls + 1
      copy == Len(users.heap) + 1
  IN /\ n <= MaxUserCalls
     /\ IF CacheHit(id)
          THEN users' =
                 [users EXCEPT
                    !.calls = n,
                    !.started = id,
                    !.rejected = @ \ {id},
                    !.heap = Append(@, NewObject(SpreadOfHit(id), FALSE)),
                    !.returned = Append(@, copy),
                    !.ended = [n |-> n, id |-> id, fetched |-> FALSE,
                               thrown |-> FALSE, result |-> copy],
                    !.first = IF Has(@, id) THEN @ ELSE Put(@, id, SpreadOfHit(id))]
          ELSE \E r \in FreeUserFetches :
                 users' = [users EXCEPT !.calls = n,
                                        !.started = id,
                                        !.rejected = @ \ {id},
                                        !.fetches = @ + 1,
                                        !.pending[r] = [id |-> id, n |-> n]]

\* getUser after its awaits: the response is checked, the user is
\* frozen into the cache and a copy is returned
FetchResolves(r, ok, data) ==
  LET fetch == users.pending[r]
      user == UserOf(data)
      cached == Len(users.heap) + 1
      copy == Len(users.heap) + 2
  IN /\ fetch # NoUserFetch
     /\ IF ~ok \/ ~isUser(data)
          THEN users' =
                 [users EXCEPT
                    !.pending[r] = NoUserFetch,
                    !.rejected = @ \cup {fetch.id},
                    !.ended = [n |-> fetch.n, id |-> fetch.id, fetched |-> TRUE,
                               thrown |-> TRUE, ok |-> ok, data |-> data]]
          ELSE users' =
                 [users EXCEPT
                    !.pending[r] = NoUserFetch,
                    !.heap = @ \o <<NewObject(user, TRUE), NewObject(user, FALSE)>>,
                    !.cache = Put(@, fetch.id, cached),
                    !.returned = Append(@, copy),
                    !.ended = [n |-> fetch.n, id |-> fetch.id, fetched |-> TRUE,
                               thrown |-> FALSE, result |-> copy,
                               ok |-> ok, data |-> data],
                    !.first = IF Has(@, fetch.id) THEN @ ELSE Put(@, fetch.id, user),
                    !.latest = Put(@, fetch.id, user)]

\* a caller assigns to a property of an object it was handed; assigning
\* to a frozen object throws and changes nothing
CallerMutates(ref) ==
  /\ ref \in {users.returned[i] : i \in 1..Len(users.returned)}
  /\ ~users.heap[ref].frozen
  /\ users' = [users EXCEPT !.heap[ref].props = Put(@, "name", <<"h">>)]

outsideUsers ==
  <<serviceVars, httpResponse, fnArgs, fnResult, taskApi, queryClient, taskForm,
    toastProvider>>

NextUsers ==
  \/ \E id \in UserIds : GetUser(id) /\ UNCHANGED outsideUsers
  \/ \E r \in 1..MaxUserFetches :
       \E res \in UserResponses(users.pending[r].id) :
         FetchResolves(r, res.ok, res.data) /\ UNCHANGED outsideUsers
  \/ \E ref \in 1..Len(users.heap) : CallerMutates(ref) /\ UNCHANGED outsideUsers

SpecUsers == Init /\ [][NextUsers]_vars

\* ---------------------------------------------------------------------
\* Claims checked on SpecUsers
\* ---------------------------------------------------------------------
ServedFromCache ==
  /\ users'.ended # users.ended
  /\ ~users'.ended.fetched
  /\ Has(users.first, users'.ended.id)

HandedOut(refs) == {refs[i] : i \in 1..Len(refs)}

FreshCopy ==
  /\ users'.fetches = users.fetches
  /\ users'.ended.result \notin HandedOut(users.returned)
  /\ \A id \in DOMAIN users'.cache : users'.cache[id] # users'.ended.result

\* C23 as stated: once a getUser(id) call has resolved, a later call
\* fetches nothing and returns a new object holding the values that
\* first call returned
C23_AsStated ==
  [][ServedFromCache
       => /\ FreshCopy
          /\ users'.heap[users'.ended.result].props = users.first[users'.ended.id]]_vars

\* C23: once a getUser(id) call has resolved, a later call fetches
\* nothing and returns a new object, distinct from every earlier result
\* and from the cached object, holding the values most recently fetched
\* and cached for id, whatever callers assigned to earlier results
C23_CopiesOfCachedUser ==
  [][ServedFromCache
       => /\ FreshCopy
          /\ users'.heap[users'.ended.result].props
               = IF Has(users.latest, users'.ended.id)
                   THEN users.latest[users'.ended.id] ELSE EmptyObject]_vars

\* after one fetch, a call was served a copy with the fetched name while
\* an earlier result for the same id carries a name its caller assigned
C23_Witness ==
  /\ Has(users.ended, "result") /\ ~users.ended.fetched
  /\ users.ended.id = <<"u">>
  /\ users.fetches = 1
  /\ Has(users.heap[users.ended.result].props, "name")
  /\ users.heap[users.ended.result].props.name = <<"n">>
  /\ \E ref \in HandedOut(users.returned) :
       /\ ref # users.ended.result
       /\ Has(users.heap[ref].props, "id")
       /\ users.heap[ref].props.id = <<"u">>
       /\ users.heap[ref].props.name = <<"h">>

\* a valid user as the claim describes it
ValidUserPayload(data) ==
  /\ data.type = "object"
  /\ \A k \in {"id", "email"} : Has(data.props, k) /\ data.props[k].type = "string"
  /\ Has(data.props, "role") /\ data.props.role.type = "string"
  /\ data.props.role.value \in {"admin", "member"}
  /\ Has(data.props, "name") => data.props.name.type = "string"

FetchEnded == users'.ended # users.ended /\ users'.ended.fetched

RejectsInvalid ==
  FetchEnded =>
    /\ users'.ended.thrown
         <=> (~users'.ended.ok \/ ~ValidUserPayload(users'.ended.data))
    /\ users'.ended.thrown => users'.cache = users.cache

CallStarted == users'.calls = users.calls + 1

\* C24 as stated: a non-ok response or an invalid payload makes getUser
\* throw and store nothing, and the next getUser call for that id
\* fetches again
C24_AsStated ==
  [][/\ RejectsInvalid
     /\ (CallStarted /\ users'.started \in users.rejected)
          => users'.fetches = users.fetches + 1]_vars

\* C24: a non-ok response or an invalid payload makes getUser throw and
\* store nothing (and only those do), and the next getUser call for that
\* id fetches again unless an overlapping call has cached a user for the
\* id in the meantime
C24_RejectedPayloadNotCached ==
  [][/\ RejectsInvalid
     /\ (CallStarted /\ users'.started \in users.rejected
           /\ ~Has(users.cache, users'.started))
          => users'.fetches = users.fetches + 1]_vars

\* a payload with a null name was rejected and the next call for the id
\* is fetching again
C24_Witness ==
  /\ Has(users.ended, "thrown") /\ users.ended.thrown /\ users.ended.ok
  /\ users.ended.data.type = "object"
  /\ Has(users.ended.data.props, "name")
  /\ users.ended.data.props.name = JNull
  /\ users.fetches = 2
  /\ \E r \in 1..MaxUserFetches :
       users.pending[r] # NoUserFetch /\ users.pending[r].id = users.ended.id
  /\ ~Has(users.cache, users.ended.id)

\* ---------------------------------------------------------------------
\* Frontend: TaskForm (the tag input)
\* ---------------------------------------------------------------------
FormMaxTags == 20

MaxTagInput == 1

\* the tag list is edited at most MaxFormEdits times
MaxFormEdits == 3

Edited(form) == [form EXCEPT !.edits = @ + 1]

\* the tags of the task an edit form is opened for: lists that the
\* backend's normalizeTags produces and taskSchema accepts
NumberedTags(n) == [i \in 1..n |-> <<"t", ToString(i)>>]

TaskTagLists ==
  { <<(<<"a">>)>>,
    <<(<<"A">>), (<<"a">>)>>,
    NumberedTags(FormMaxTags) }

\* createInitialState(task)
createInitialState(mode, tags) ==
  [mode |-> mode, tags |-> tags, tagInput |-> <<>>, edits |-> 0]

addTag(prev, rawValue) ==
  LET candidate == Trim(rawValue)
      exists == \E i \in 1..Len(prev.tags) :
                  ToLowerCase(prev.tags[i]) = ToLowerCase(candidate)
  IN IF Len(candidate) = 0 THEN [prev EXCEPT !.tagInput = <<>>]
     ELSE IF exists \/ Len(prev.tags) >= FormMaxTags
       THEN [prev EXCEPT !.tagInput = <<>>]
     ELSE [prev EXCEPT !.tags = Append(@, candidate), !.tagInput = <<>>]

removeTag(prev, tagToRemove) ==
  [prev EXCEPT !.tags = SelectSeq(@, LAMBDA tag : tag # tagToRemove)]

\* onChange of the tag input: a character is typed or pasted
ChangeTagInput(ch) ==
  /\ Len(taskForm.tagInput) < MaxTagInput
  /\ taskForm' = [taskForm EXCEPT !.tagInput = Append(@, ch)]

\* handleTagInputKeyDown: space or Enter
KeyAddsTag ==
  /\ taskForm.edits < MaxFormEdits
  /\ taskForm' = Edited(addTag(taskForm, taskForm.tagInput))

\* the remove button of a chip
ClickRemoveTag(tag) ==
  /\ \E i \in 1..Len(taskForm.tags) : taskForm.tags[i] = tag
  /\ taskForm.edits < MaxFormEdits
  /\ taskForm' = Edited(removeTag(taskForm, tag))

\* handleTagInputKeyDown: Backspace pops the last tag when the input is
\* empty, and otherwise deletes a character of the input
KeyBackspace ==
  /\ taskForm.tagInput # <<>> \/ (taskForm.tags # <<>> /\ taskForm.edits < MaxFormEdits)
  /\ taskForm' =
       IF Len(taskForm.tagInput) = 0
         THEN [taskForm EXCEPT !.tags = SubSeq(@, 1, Len(@) - 1), !.edits = @ + 1]
         ELSE [taskForm EXCEPT !.tagInput = SubSeq(@, 1, Len(@) - 1)]

TagChars == {"a", "A", " "}

outsideForm ==
  <<serviceVars, httpResponse, fnArgs, fnResult, taskApi, queryClient, users,
    toastProvider>>

NextForm ==
  \/ \E ch \in TagChars : ChangeTagInput(ch) /\ UNCHANGED outsideForm
  \/ KeyAddsTag /\ UNCHANGED outsideForm
  \/ \E i \in 1..Len(taskForm.tags) :
       ClickRemoveTag(taskForm.tags[i]) /\ UNCHANGED outsideForm
  \/ KeyBackspace /\ UNCHANGED outsideForm

InitForm ==
  /\ InitService
  /\ httpResponse = NoResponse
  /\ fnArgs = NoCall
  /\ fnResult = NoResult
  /\ taskApi = InitTaskApi
  /\ queryClient = InitQueryClient
  /\ users = InitUsers
  /\ toastProvider = InitToastProvider
  /\ \/ taskForm = createInitialState("create", <<>>)
     \/ \E tags \in TaskTagLists : taskForm = createInitialState("edit", tags)

SpecForm == InitForm /\ [][NextForm]_vars

\* ---------------------------------------------------------------------
\* Claims checked on SpecForm
\* ---------------------------------------------------------------------
DistinctIgnoringCase(tags) ==
  \A i, j \in 1..Len(tags) :
    ToLowerCase(tags[i]) = ToLowerCase(tags[j]) => i = j

\* C25: after every tag addition, chip removal and Backspace, in create
\* and in edit mode, the tag list holds no two tags equal ignoring case,
\* no empty tag, and at most 20 tags
C25_TagListWellFormed ==
  [][/\ DistinctIgnoringCase(taskForm'.tags)
     /\ \A i \in 1..Len(taskForm'.tags) : Len(taskForm'.tags[i]) > 0
     /\ Len(taskForm'.tags) <= FormMaxTags]_vars

\* ---------------------------------------------------------------------
\* Frontend: ToastProvider
\* ---------------------------------------------------------------------
DEFAULT_TIMEOUT_MS == 4000

\* at most MaxToasts toasts are shown; a timeout runs down in ToastTicks
\* steps of the clock
MaxToasts == 3

ToastTicks == 4

ToastTickMs == DEFAULT_TIMEOUT_MS \div ToastTicks

ToastTypes == {"info", "error"}

\* mutation: the timer entry is left in the timeouts map
dismissToast_KeepsTimeout(provider, id) ==
  [provider EXCEPT !.toasts = SelectSeq(@, LAMBDA toast : toast.id # id)]

\* dismissToast: the toast is filtered out, its timer cleared and its
\* entry deleted from the timeouts map
dismissToast(provider, id) ==
  [provider EXCEPT
     !.toasts = SelectSeq(@, LAMBDA toast : toast.id # id),
     !.timeouts = [t \in DOMAIN @ \ {id} |-> @[t]]]

\* showToast: the next id, the toast appended, its timer started; the
\* timeouts map holds, for each timer, the time left until it is due
showToast(provider, type) ==
  LET id == provider.nextId + 1
  IN [provider EXCEPT
        !.nextId = id,
        !.toasts = Append(@, [id |-> id, type |-> type]),
        !.timeouts = Put(@, id, DEFAULT_TIMEOUT_MS)]

ShowToast(type) ==
  /\ toastProvider.nextId < MaxToasts
  /\ toastProvider' = showToast(toastProvider, type)

\* the dismiss button of a toast
ClickDismiss(id) ==
  /\ \E i \in 1..Len(toastProvider.toasts) : toastProvider.toasts[i].id = id
  /\ toastProvider' = dismissToast(toastProvider, id)

\* the callback of setTimeout runs once its time is up
TimeoutFires(id) ==
  /\ Has(toastProvider.timeouts, id)
  /\ toastProvider.timeouts[id] = 0
  /\ toastProvider' = dismissToast(toastProvider, id)

\* time passes, up to the moment the next timer is due
ToastTick ==
  /\ toastProvider.timeouts # EmptyObject
  /\ \A id \in DOMAIN toastProvider.timeouts : toastProvider.timeouts[id] > 0
  /\ toastProvider' =
       [toastProvider EXCEPT
          !.timeouts = [id \in DOMAIN @ |->
                          IF @[id] > ToastTickMs THEN @[id] - ToastTickMs ELSE 0]]

outsideToast ==
  <<serviceVars, httpResponse, fnArgs, fnResult, taskApi, queryClient, users,
    taskForm>>

NextToast ==
  \/ \E type \in ToastTypes : ShowToast(type) /\ UNCHANGED outsideToast
  \/ \E id \in 1..MaxToasts : ClickDismiss(id) /\ UNCHANGED outsideToast
  \/ \E id \in 1..MaxToasts : TimeoutFires(id) /\ UNCHANGED outsideToast
  \/ ToastTick /\ UNCHANGED outsideToast

\* the event loop runs every timer that is due, and time passes
SpecToast ==
  /\ Init
  /\ [][NextToast]_vars
  /\ WF_vars(ToastTick /\ UNCHANGED outsideToast)
  /\ \A id \in 1..MaxToasts : WF_vars(TimeoutFires(id) /\ UNCHANGED outsideToast)

\* ---------------------------------------------------------------------
\* Claims checked on SpecToast
\* ---------------------------------------------------------------------
Shown(id) == \E i \in 1..Len(toastProvider.toasts) : toastProvider.toasts[i].id = id

\* C26: every toast shown is eventually removed; a toast is removed
\* before its time is up only by a dismiss, and by then its timer is
\* gone; the ids of the toasts shown are strictly increasing and above
\* none is nextId; the timeouts map holds entries of shown toasts only
C26_ToastsAreRemoved ==
  /\ \A id \in 1..MaxToasts : Shown(id) ~> ~Shown(id)
  /\ [](/\ \A i, j \in 1..Len(toastProvider.toasts) :
             i < j => toastProvider.toasts[i].id < toastProvider.toasts[j].id
        /\ \A i \in 1..Len(toastProvider.toasts) :
             toastProvider.toasts[i].id <= toastProvider.nextId
        /\ \A id \in DOMAIN toastProvider.timeouts : Shown(id))
  /\ [][\A id \in 1..MaxToasts :
          (Shown(id) /\ ~Shown(id)') => ~Has(toastProvider'.timeouts, id)]_vars

\* of three toasts the first two are removed and have left no timer
\* behind; the third is still shown, one tick of its timeout gone
C26_Witness ==
  /\ toastProvider.nextId = 3
  /\ ~Shown(1) /\ ~Shown(2) /\ Shown(3)
  /\ DOMAIN toastProvider.timeouts = {3}
  /\ toastProvider.timeouts[3] = DEFAULT_TIMEOUT_MS - ToastTickMs

\* ---------------------------------------------------------------------
\* Claims checked on Spec: the key of the list cache
\* ---------------------------------------------------------------------
\* the step is a listTasks call that returned
ListReturned == outcome'.n = calls' /\ calls' # calls /\ outcome'.op = "list"

\* a response is cached under the key of a query for which repository.list
\* gets the options it gets for this one
CachedForSameOptions(query) ==
  \E earlier \in Queries :
    /\ ListOptions(earlier) = ListOptions(query)
    /\ ListCacheKey(earlier) \in DOMAIN cache

\* C27: a listTasks call whose options for repository.list are those of a
\* query that has a response in the cache is a cache hit: repository.list
\* is not called
C27_SameOptionsSameKey ==
  [][(ListReturned /\ CachedForSameOptions(outcome'.dto)) => ~outcome'.queried]_vars

\* ---------------------------------------------------------------------
\* ApiTokenGuard applied to drawn configurations and headers
\* ---------------------------------------------------------------------
\* API_TOKEN: unset, empty, a token, a token written with spaces around it
ConfiguredTokens ==
  { JsonUndefined, <<>>, ApiToken, <<"w">>, <<" ", "s">>, <<"s", " ">> }

\* the Authorization header: absent, empty, the scheme alone, the scheme
\* with no token, in lower case, another scheme, and bearer tokens with
\* and without spaces around them
GuardHeaders ==
  AuthHeaders
  \cup { <<>>, <<"B", "e", "a", "r", "e", "r">>, BearerPrefix,
         <<"b", "e", "a", "r", "e", "r", " ">> \o ApiToken,
         Bearer(ApiToken \o <<" ">>) }

GuardArgs ==
  {[fn |-> "canActivate", expectedToken |-> t, authHeader |-> h] :
     t \in ConfiguredTokens, h \in GuardHeaders}

InitGuard ==
  /\ InitService
  /\ httpResponse = NoResponse
  /\ fnArgs \in GuardArgs
  /\ fnResult = NoResult
  /\ taskApi = InitTaskApi
  /\ InitHooks

ApplyCanActivate ==
  /\ fnArgs.fn = "canActivate"
  /\ Returns("canActivate", canActivate(fnArgs.expectedToken, fnArgs.authHeader))

NextGuard == ApplyCanActivate

SpecGuard == InitGuard /\ [][NextGuard]_vars

\* ---------------------------------------------------------------------
\* Claims checked on SpecGuard
\* ---------------------------------------------------------------------
Configured(expectedToken) == expectedToken # JsonUndefined /\ expectedToken # <<>>

CarriesBearer(authHeader) ==
  authHeader # JsonUndefined /\ StartsWith(authHeader, BearerPrefix)

\* the token of a bearer header: what follows 'Bearer ', trimmed
TokenOf(authHeader) == Trim(Substring(authHeader, Len(BearerPrefix)))

DeniedAs(thrown, cause) ==
  /\ thrown.name = "ProblemDetailsException"
  /\ thrown.status = HttpUnauthorized
  /\ thrown.problem.type = "https://example.com/problems/" \o cause

\* C28: with no API token configured canActivate throws misconfigured-auth
\* whatever the header; otherwise missing-token for a header that is
\* absent or does not start with 'Bearer '; otherwise invalid-token for a
\* token that differs from the configured one; it returns true only for
\* a token equal to the configured one
C28_OneCauseInPrecedence ==
  Has(fnResult, "canActivate") =>
    LET thrown == fnResult.canActivate
        expectedToken == fnArgs.expectedToken
        authHeader == fnArgs.authHeader
    IN  /\ ~Configured(expectedToken) => DeniedAs(thrown, "misconfigured-auth")
        /\ (Configured(expectedToken) /\ ~CarriesBearer(authHeader))
           => DeniedAs(thrown, "missing-token")
        /\ (Configured(expectedToken) /\ CarriesBearer(authHeader)
            /\ TokenOf(authHeader) # expectedToken)
           => DeniedAs(thrown, "invalid-token")
        /\ thrown = NoError
           <=> (/\ Configured(expectedToken)
                /\ CarriesBearer(authHeader)
                /\ TokenOf(authHeader) = expectedToken)

\* the header carries a well-formed bearer token and the server has no
\* API_TOKEN: the request is denied as misconfigured
C28_Witness ==
  /\ Has(fnResult, "canActivate")
  /\ fnArgs.expectedToken = JsonUndefined
  /\ fnArgs.authHeader = Bearer(ApiToken)
  /\ DeniedAs(fnResult.canActivate, "misconfigured-auth")

====
